---- MODULE Spec2Model ----
(***************************************************************************)
(* WhatsApp chat-export tools of teralis/micro-apps: the message parser,   *)
(* date normalisation, date filter and photo detection of the photo        *)
(* extractor (whatsapp_photo_extractor.py) and of the timeline generator   *)
(* (whatsapp_timeline_generator.py).                                       *)
(*                                                                         *)
(* Text is a sequence of characters; a character is a one-character string *)
(* except for the named ones: "NNBSP" (U+202F), "LRM" (U+200E), "TAB",     *)
(* "CR" and "\n".                                                          *)
(***************************************************************************)
EXTENDS Integers, Sequences, FiniteSets, TLC

VARIABLES
    tool,               \* which script runs: "extractor" or "timeline"
    pc,                 \* position of the run in main / in the current loop
    chat_content,       \* text of the chat file read from the archive
    args_start,         \* --start-date string, <<>> when not given
    args_end,           \* --end-date string, <<>> when not given
    args_last_month,    \* --last-month given
    start_date,         \* parsed lower bound or None
    end_date,           \* parsed upper bound or None
    lines,              \* chat_content.split('\n')
    li,                 \* index of the next line of the parse loop
    messages,           \* the message dicts, in creation order
    current_message,    \* index in messages of the open message, 0 for None
    filtered_messages,  \* list handed to find_photo_messages (refs into messages)
    fi,                 \* index of the next message of the filter loop
    photo_messages,     \* list built by find_photo_messages (refs into messages)
    pi,                 \* index of the next message of the find loop
    exit_status,        \* return value of main, -1 while running
    date_str,           \* argument of a direct parse_message_date call
    date_result,        \* outcome of that call
    args_max_photos,    \* --max-photos of the timeline generator
    years_data,         \* organize_by_year: year -> what was gathered for it
    oi,                 \* index of the next message of the organize loop
    timeline_data,      \* processed_years of organize_by_year
    call_args,          \* arguments of a direct call of a function
    call_result,        \* what that call returned
    directory,          \* the output directory: file name -> content
    zip_members,        \* names of the members of the archive
    extracted_files,    \* list built by extract_photos / processed_photos
    xi,                 \* index of the next message of the extraction loop
    new_path,           \* name being tried for the renamed file
    name_counter,       \* suffix the next name tried will carry (counter)
    generated_codes,    \* list built by generate_qr_codes
    qi,                 \* index of the next row of the CSV reader
    document,           \* what create_word_document has added to doc
    photo_count,        \* photo_count of create_word_document
    di,                 \* index of the next message of its loop
    corrupt_members     \* the members of the archive that are no image

\* the variables of organize_by_year
years_vars == <<args_max_photos, years_data, oi, timeline_data>>

\* the variables of a direct call
call_vars == <<call_args, call_result>>

\* the variables of the stages after photo detection
\* the variables of extract_photos and process_and_copy_images
extract_vars == <<directory, zip_members, extracted_files, xi, new_path,
                  name_counter>>

\* the variables of generate_qr_codes
qr_vars == <<generated_codes, qi>>

\* the variables of create_word_document
doc_vars == <<document, photo_count, di, corrupt_members>>

stage_vars == <<years_vars, call_vars, extract_vars, qr_vars, doc_vars>>

vars == <<tool, pc, chat_content, args_start, args_end, args_last_month,
          start_date, end_date, lines, li, messages, current_message,
          filtered_messages, fi, photo_messages, pi, exit_status, date_str,
          date_result, stage_vars>>

----------------------------------------------------------------------------
(* Characters and text helpers                                             *)

Digits == {"0", "1", "2", "3", "4", "5", "6", "7", "8", "9"}

IsDigit(c) == c \in Digits

DigitVal(c) ==
    CASE c = "0" -> 0 [] c = "1" -> 1 [] c = "2" -> 2 [] c = "3" -> 3
      [] c = "4" -> 4 [] c = "5" -> 5 [] c = "6" -> 6 [] c = "7" -> 7
      [] c = "8" -> 8 [] c = "9" -> 9

\* str.isspace() on the characters of the model
PyWhitespace == {" ", "TAB", "CR", "\n", "NNBSP"}

\* s[i:] (1-based, i may be Len(s)+1)
From(s, i) == SubSeq(s, i, Len(s))

\* s.startswith(lit, i-1)
LitAt(s, i, lit) ==
    /\ i >= 1
    /\ i + Len(lit) - 1 <= Len(s)
    /\ \A k \in 1..Len(lit) : s[i + k - 1] = lit[k]

\* lit in s
Contains(s, lit) == \E i \in 1..Len(s) : LitAt(s, i, lit)

\* s.lstrip(chars)
RECURSIVE LStripChars(_, _)
LStripChars(s, ws) ==
    IF s # <<>> /\ Head(s) \in ws THEN LStripChars(Tail(s), ws) ELSE s

\* s.rstrip(chars)
RECURSIVE RStripChars(_, _)
RStripChars(s, ws) ==
    IF s # <<>> /\ s[Len(s)] \in ws
    THEN RStripChars(SubSeq(s, 1, Len(s) - 1), ws)
    ELSE s

\* s.strip(chars): drop the characters of ws from both ends
StripChars(s, ws) == RStripChars(LStripChars(s, ws), ws)

\* s.strip()
Strip(s) == StripChars(s, PyWhitespace)

\* s.replace(c, '') for a single character c
RemoveChar(s, c) == SelectSeq(s, LAMBDA x : x # c)

\* s.replace(c, d) for single characters c, d
ReplaceChar(s, c, d) == [i \in 1..Len(s) |-> IF s[i] = c THEN d ELSE s[i]]

\* s.split(sep) for a single-character separator
RECURSIVE Split(_, _)
Split(s, sep) ==
    LET hits == {i \in 1..Len(s) : s[i] = sep}
    IN  IF hits = {} THEN <<s>>
        ELSE LET k == CHOOSE i \in hits : \A j \in hits : i <= j
             IN  <<SubSeq(s, 1, k - 1)>> \o Split(From(s, k + 1), sep)

\* sep.join(parts)
RECURSIVE Join(_, _)
Join(parts, sep) ==
    IF parts = <<>> THEN <<>>
    ELSE IF Len(parts) = 1 THEN parts[1]
         ELSE parts[1] \o <<sep>> \o Join(Tail(parts), sep)

----------------------------------------------------------------------------
(* int() and datetime()                                                    *)

\* digits of the numeral int() reads: whitespace stripped, one sign dropped
IntBody(s) ==
    LET t == Strip(s)
    IN  IF t # <<>> /\ t[1] \in {"+", "-"} THEN Tail(t) ELSE t

\* int(s) does not raise ValueError
IntOK(s) ==
    /\ IntBody(s) # <<>>
    /\ \A i \in 1..Len(IntBody(s)) : IsDigit(IntBody(s)[i])

RECURSIVE DigitsVal(_)
DigitsVal(s) ==
    IF s = <<>> THEN 0
    ELSE 10 * DigitsVal(SubSeq(s, 1, Len(s) - 1)) + DigitVal(s[Len(s)])

\* int(s), for IntOK(s)
IntVal(s) ==
    LET t == Strip(s)
    IN  IF t[1] = "-" THEN 0 - DigitsVal(IntBody(s)) ELSE DigitsVal(IntBody(s))

IsLeap(y) == (y % 4 = 0) /\ ((y % 100 # 0) \/ (y % 400 = 0))

DaysInMonth(y, m) ==
    IF m = 2 THEN (IF IsLeap(y) THEN 29 ELSE 28)
    ELSE IF m \in {4, 6, 9, 11} THEN 30 ELSE 31

\* datetime(y, m, d) does not raise ValueError
ValidDate(y, m, d) ==
    /\ y >= 1 /\ y <= 9999
    /\ m >= 1 /\ m <= 12
    /\ d >= 1 /\ d <= DaysInMonth(y, m)

\* Python's None where a datetime is expected (year 0 is no datetime); tod
\* is the time of day in seconds, 0 for the datetimes parse_message_date
\* builds
None == [year |-> 0, month |-> 0, day |-> 0, tod |-> 0]

\* dt1 < dt2 on datetimes
DtLess(a, b) ==
    \/ a.year < b.year
    \/ a.year = b.year /\ a.month < b.month
    \/ a.year = b.year /\ a.month = b.month /\ a.day < b.day
    \/ a.year = b.year /\ a.month = b.month /\ a.day = b.day /\ a.tod < b.tod

\* dt - timedelta(days=1)
PrevDay(d) ==
    IF d.day > 1 THEN [d EXCEPT !.day = @ - 1]
    ELSE IF d.month > 1
         THEN [d EXCEPT !.month = @ - 1,
                        !.day = DaysInMonth(d.year, d.month - 1)]
         ELSE [d EXCEPT !.year = @ - 1, !.month = 12, !.day = 31]

\* dt - timedelta(days=n)
RECURSIVE MinusDays(_, _)
MinusDays(d, n) == IF n = 0 THEN d ELSE MinusDays(PrevDay(d), n - 1)

\* the outcome of a call that has not been made yet
Pending == [outcome |-> "pending", value |-> None]

Raise == [outcome |-> "raise", value |-> None]
Return(v) == [outcome |-> "return", value |-> v]

\* ParseDateTry with the pivot test written `<= 50`
ParseDateTry_PivotAt51(s) ==
    LET parts == Split(s, "/")
    IN  IF Len(parts) # 3 THEN Return(None)
        ELSE
          LET day == parts[1]
              month == parts[2]
              year == parts[3]
          IN  IF Len(year) = 2 /\ ~IntOK(year) THEN Raise
              ELSE
                LET year4 == IF Len(year) = 2
                             THEN (IF IntVal(year) <= 50
                                   THEN <<"2", "0">> \o year
                                   ELSE <<"1", "9">> \o year)
                             ELSE year
                IN  IF ~(IntOK(year4) /\ IntOK(month) /\ IntOK(day)) THEN Raise
                    ELSE IF ~ValidDate(IntVal(year4), IntVal(month), IntVal(day))
                         THEN Raise
                         ELSE Return([year |-> IntVal(year4),
                                      month |-> IntVal(month),
                                      day |-> IntVal(day),
                                      tod |-> 0])

\* the body of the try block of parse_message_date
ParseDateTry(s) ==
    LET parts == Split(s, "/")
    IN  IF Len(parts) # 3 THEN Return(None)
        ELSE
          LET day == parts[1]
              month == parts[2]
              year == parts[3]
          IN  IF Len(year) = 2 /\ ~IntOK(year) THEN Raise
              ELSE
                LET year4 == IF Len(year) = 2
                             THEN (IF IntVal(year) < 50
                                   THEN <<"2", "0">> \o year
                                   ELSE <<"1", "9">> \o year)
                             ELSE year
                IN  IF ~(IntOK(year4) /\ IntOK(month) /\ IntOK(day)) THEN Raise
                    ELSE IF ~ValidDate(IntVal(year4), IntVal(month), IntVal(day))
                         THEN Raise
                         ELSE Return([year |-> IntVal(year4),
                                      month |-> IntVal(month),
                                      day |-> IntVal(day),
                                      tod |-> 0])

\* parse_message_date without the except clause
parse_message_date_NoExcept(s) == ParseDateTry(s)

\* parse_message_date: the bare except turns every exception into None
parse_message_date(s) ==
    IF ParseDateTry(s).outcome = "raise" THEN Return(None) ELSE ParseDateTry(s)

----------------------------------------------------------------------------
(* Regular-expression pieces.  A position set holds the indices at which   *)
(* the rest of a pattern may continue after a piece has matched.           *)

\* \d{lo,hi} from each position of I
DigitEnds(s, I, lo, hi) ==
    UNION {{i + n : n \in {m \in lo..hi :
                              /\ i + m - 1 <= Len(s)
                              /\ \A k \in i..i + m - 1 : IsDigit(s[k])}} :
           i \in I}

\* a literal from each position of I
LitEnds(s, I, lit) == {i + Len(lit) : i \in {k \in I : LitAt(s, k, lit)}}

\* (?:lit)? for one of the literals of lits, from each position of I
OptEnds(s, I, lits) == I \cup UNION {LitEnds(s, I, lit) : lit \in lits}

\* \d{1,2}/\d{1,2}/\d{ylo,yhi} from position i
DateEnds(s, i, ylo, yhi) ==
    DigitEnds(s, LitEnds(s, DigitEnds(s, LitEnds(s, DigitEnds(s, {i}, 1, 2),
                                                 <<"/">>), 1, 2),
                         <<"/">>), ylo, yhi)

\* (?:\u202f)?(?:am|pm)? from each position of I
MeridiemEnds(s, I) ==
    OptEnds(s, OptEnds(s, I, {<<"NNBSP">>}), {<<"a", "m">>, <<"p", "m">>})

\* \d{1,2}:\d{2}(?:\u202f)?(?:am|pm)? from position i (extractor)
TimeEndsComma(s, i) ==
    MeridiemEnds(s, DigitEnds(s, LitEnds(s, DigitEnds(s, {i}, 1, 2), <<":">>),
                              2, 2))

\* \d{1,2}:\d{2}:\d{2}(?:\u202f)?(?:am|pm)? from position i (timeline)
TimeEndsBracket(s, i) ==
    MeridiemEnds(s, DigitEnds(s, LitEnds(s, DigitEnds(s, LitEnds(s,
        DigitEnds(s, {i}, 1, 2), <<":">>), 2, 2), <<":">>), 2, 2))

\* [^:]+ from position i
SenderEnds(s, i) ==
    LET colons == {k \in i..Len(s) : s[k] = ":"}
        stop == IF colons = {} THEN Len(s) + 1
                ELSE CHOOSE k \in colons : \A j \in colons : k <= j
    IN  i + 1..stop

\* (.+)$ at position i: at least one character, none a newline, up to the end
ContentAt(s, i) ==
    /\ i <= Len(s)
    /\ \A k \in i..Len(s) : s[k] # "\n"

\* HeaderShape with the comma-style pattern in both tools
HeaderShape_CommaInBoth(t) ==
    [open |-> <<>>, sep |-> <<" ", "-", " ">>, ylo |-> 2, yhi |-> 4,
     secs |-> FALSE]

\* the shape of the two header patterns: what precedes the date, what
\* separates the time from the sender, the digits of the year, and whether
\* the time has seconds
HeaderShape(t) ==
    IF t = "extractor"
    THEN [open |-> <<>>, sep |-> <<" ", "-", " ">>, ylo |-> 2, yhi |-> 4,
          secs |-> FALSE]
    ELSE [open |-> <<"[">>, sep |-> <<"]", " ">>, ylo |-> 4, yhi |-> 4,
          secs |-> TRUE]

\* every way a header pattern of shape sh matches the whole line s, as
\* <<end of date, end of time, end of sender>> (exclusive ends)
ShapeMatches(s, sh) ==
    LET d0 == Len(sh.open) + 1
        D == {de \in DateEnds(s, d0, sh.ylo, sh.yhi) :
                 LitAt(s, de, <<",", " ">>)}
        T(de) == {te \in (IF sh.secs THEN TimeEndsBracket(s, de + 2)
                          ELSE TimeEndsComma(s, de + 2)) :
                     LitAt(s, te, sh.sep)}
        S(te) == {se \in SenderEnds(s, te + Len(sh.sep)) :
                     LitAt(s, se, <<":", " ">>) /\ ContentAt(s, se + 2)}
    IN  IF ~LitAt(s, 1, sh.open) THEN {}
        ELSE UNION {UNION {{<<de, te, se>> : se \in S(te)} : te \in T(de)} :
                    de \in D}

\* every way message_pattern of tool t matches the whole line s
HeaderMatches(s, t) == ShapeMatches(s, HeaderShape(t))

\* re.match(message_pattern, line) is not None
IsHeader(s, t) == HeaderMatches(s, t) # {}

\* a <= b on triples, lexicographically
LexLeq(a, b) ==
    \/ a[1] < b[1]
    \/ a[1] = b[1] /\ a[2] < b[2]
    \/ a[1] = b[1] /\ a[2] = b[2] /\ a[3] <= b[3]

\* match.groups(): every quantifier of the pattern is greedy, so the match
\* the engine reports is the one with the longest date, then time, then sender
HeaderGroups(s, t) ==
    LET sh == HeaderShape(t)
        d0 == Len(sh.open) + 1
        ms == HeaderMatches(s, t)
        m == CHOOSE x \in ms : \A y \in ms : LexLeq(y, x)
    IN  [date |-> SubSeq(s, d0, m[1] - 1),
         time |-> SubSeq(s, m[1] + 2, m[2] - 1),
         sender |-> SubSeq(s, m[2] + Len(sh.sep), m[3] - 1),
         content |-> From(s, m[3] + 2)]

\* image_filename of a message dict that has no such key
NoFilename == <<>>

\* the dict built for a header line (lines 57-69 / 57-67)
NewMessage(s, t) ==
    LET g == HeaderGroups(s, t)
    IN  [date |-> g.date,
         time |-> ReplaceChar(g.time, "NNBSP", " "),
         sender |-> Strip(g.sender),
         content |-> Strip(g.content),
         full_content |-> Strip(g.content),
         datetime |-> parse_message_date(g.date).value,
         image_filename |-> NoFilename]

\* the loop variable after the strip (and, in the timeline, after the
\* left-to-right marks are removed)
CleanLine(raw, t) ==
    IF t = "extractor" THEN Strip(raw)
    ELSE RemoveChar(StripChars(raw, {"CR", "\n", " "}), "LRM")

\* the `if not line: continue` test, made on the stripped line (in the
\* timeline before the left-to-right marks are removed)
IsBlank(raw, t) ==
    IF t = "extractor" THEN Strip(raw) = <<>>
    ELSE StripChars(raw, {"CR", "\n", " "}) = <<>>

----------------------------------------------------------------------------
(* Photo detection                                                         *)

UpperCase ==
    <<"A", "B", "C", "D", "E", "F", "G", "H", "I", "J", "K", "L", "M",
      "N", "O", "P", "Q", "R", "S", "T", "U", "V", "W", "X", "Y", "Z">>

LowerCase ==
    <<"a", "b", "c", "d", "e", "f", "g", "h", "i", "j", "k", "l", "m",
      "n", "o", "p", "q", "r", "s", "t", "u", "v", "w", "x", "y", "z">>

\* the lower-case letter of each upper-case letter
LowerOf ==
    [c \in {UpperCase[k] : k \in 1..26} |->
        LowerCase[CHOOSE k \in 1..26 : UpperCase[k] = c]]

\* c.lower()
Lower(c) == IF c \in DOMAIN LowerOf THEN LowerOf[c] ELSE c

\* the literal at position i, compared as the pattern's flags say:
\* letter case ignored when ci (re.IGNORECASE)
PatLitAt(s, i, lit, ci) ==
    /\ i >= 1
    /\ i + Len(lit) - 1 <= Len(s)
    /\ \A k \in 1..Len(lit) :
          IF ci THEN Lower(s[i + k - 1]) = Lower(lit[k])
          ELSE s[i + k - 1] = lit[k]

\* \d{n} at position i
DigitsAt(s, i, n) ==
    /\ i + n - 1 <= Len(s)
    /\ \A k \in i..i + n - 1 : IsDigit(s[k])

TriggerFileAttached == <<"(", "f", "i", "l", "e", " ", "a", "t", "t", "a", "c", "h", "e", "d", ")">>
ImageExtensions == <<<<".", "j", "p", "g">>, <<".", "j", "p", "e", "g">>, <<".", "p", "n", "g">>>>

\* (IMG-\d{8}-WA\d{4}\.jpg) matched at position i: the group, or NoFilename
ImgWaAt(s, i, ci) ==
    IF /\ PatLitAt(s, i, <<"I", "M", "G", "-">>, ci)
       /\ DigitsAt(s, i + 4, 8)
       /\ PatLitAt(s, i + 12, <<"-", "W", "A">>, ci)
       /\ DigitsAt(s, i + 15, 4)
       /\ PatLitAt(s, i + 19, <<".", "j", "p", "g">>, ci)
    THEN SubSeq(s, i, i + 22)
    ELSE NoFilename

\* <attached: ([^>]+\.(?:jpg|jpeg|png))> matched at position i, case ignored:
\* the group runs to the first ">" and must end in one of the extensions
AttachedAt(s, i) ==
    LET g0 == i + 11
        closes == {e \in g0..Len(s) : s[e] = ">"}
        e == CHOOSE x \in closes : \A y \in closes : x <= y
        g == SubSeq(s, g0, e - 1)
    IN  IF /\ PatLitAt(s, i, <<"<", "a", "t", "t", "a", "c", "h", "e", "d", ":", " ">>, TRUE)
           /\ closes # {}
           /\ \E x \in 1..3 :
                 /\ Len(g) >= Len(ImageExtensions[x]) + 1
                 /\ PatLitAt(g, Len(g) - Len(ImageExtensions[x]) + 1,
                             ImageExtensions[x], TRUE)
        THEN g
        ELSE NoFilename

\* (\d{8}-PHOTO-[^>]+\.jpg) matched at position i, case ignored: [^>]+ is
\* greedy, so the group ends at the last ".jpg" before the next ">"
DigitsPhotoAt(s, i) ==
    LET b == i + 15
        dots == {d \in b + 1..Len(s) :
                    /\ PatLitAt(s, d, <<".", "j", "p", "g">>, TRUE)
                    /\ \A k \in b..d - 1 : s[k] # ">"}
        d == CHOOSE x \in dots : \A y \in dots : y <= x
    IN  IF /\ DigitsAt(s, i, 8)
           /\ PatLitAt(s, i + 8, <<"-", "P", "H", "O", "T", "O", "-">>, TRUE)
           /\ dots # {}
        THEN SubSeq(s, i, d + 3)
        ELSE NoFilename

\* ([^<>\s]+\.(?:jpg|jpeg|png)) matched at position i, case ignored: the run
\* is greedy, so the group ends at the last extension the run reaches
GenericImageAt(s, i) ==
    LET stop == {"<", ">"} \cup PyWhitespace
        runEnd == CHOOSE r \in i..Len(s) + 1 :
                     /\ r = Len(s) + 1 \/ s[r] \in stop
                     /\ \A k \in i..r - 1 : s[k] \notin stop
        dots == {d \in i + 1..runEnd - 1 :
                    /\ s[d] = "."
                    /\ \E x \in 1..3 : PatLitAt(s, d, ImageExtensions[x], TRUE)}
        d == CHOOSE x \in dots : \A y \in dots : y <= x
        ext == ImageExtensions[CHOOSE x \in 1..3 :
                   /\ PatLitAt(s, d, ImageExtensions[x], TRUE)
                   /\ \A y \in 1..x - 1 :
                         ~PatLitAt(s, d, ImageExtensions[y], TRUE)]
    IN  IF s[i] \notin stop /\ dots # {}
        THEN SubSeq(s, i, d + Len(ext) - 1)
        ELSE NoFilename

\* filename_patterns[k] matched at position i (timeline)
PatternAt(k, s, i) ==
    CASE k = 1 -> AttachedAt(s, i)
      [] k = 2 -> ImgWaAt(s, i, TRUE)
      [] k = 3 -> DigitsPhotoAt(s, i)
      [] k = 4 -> GenericImageAt(s, i)

NumPatterns == 4

\* SearchPattern reporting the rightmost match
SearchPattern_Rightmost(k, s) ==
    LET hits == {i \in 1..Len(s) : PatternAt(k, s, i) # NoFilename}
    IN  IF hits = {} THEN NoFilename
        ELSE PatternAt(k, s, CHOOSE i \in hits : \A j \in hits : j <= i)

\* re.search(filename_patterns[k], s, re.IGNORECASE): group 1 of the leftmost
\* match, or NoFilename
SearchPattern(k, s) ==
    LET hits == {i \in 1..Len(s) : PatternAt(k, s, i) # NoFilename}
    IN  IF hits = {} THEN NoFilename
        ELSE PatternAt(k, s, CHOOSE i \in hits : \A j \in hits : i <= j)

\* re.search(img_pattern, s) of the extractor: case-sensitive
SearchImgWa(s) ==
    LET hits == {i \in 1..Len(s) : ImgWaAt(s, i, FALSE) # NoFilename}
    IN  IF hits = {} THEN NoFilename
        ELSE ImgWaAt(s, CHOOSE i \in hits : \A j \in hits : i <= j, FALSE)

\* the `if` that guards the filename search
HasTrigger(m, t) ==
    IF t = "extractor"
    THEN \/ Contains(m.content, TriggerFileAttached)
         \/ Contains(m.full_content, TriggerFileAttached)
    ELSE \/ Contains(m.full_content, <<"<", "a", "t", "t", "a", "c", "h", "e", "d", ":">>)
         \/ Contains(m.full_content, <<".", "j", "p", "g">> \o <<">">>)
         \/ Contains(m.full_content, <<".", "j", "p", "e", "g">> \o <<">">>)
         \/ Contains(m.full_content, <<".", "p", "n", "g">> \o <<">">>)
         \/ Contains(m.full_content, <<"P", "H", "O", "T", "O", "-">>)

\* FirstPattern taking, among the patterns from k on, the one whose match
\* starts earliest in the text
FirstPattern_EarliestInText(k, s) ==
    LET pos(h) == {i \in 1..Len(s) : PatternAt(h, s, i) # NoFilename}
        cands == {h \in k..NumPatterns : pos(h) # {}}
        first(h) == CHOOSE i \in pos(h) : \A j \in pos(h) : i <= j
    IN  IF cands = {} THEN NoFilename
        ELSE LET h == CHOOSE h \in cands : \A g \in cands :
                          \/ first(h) < first(g)
                          \/ first(h) = first(g) /\ h <= g
             IN  PatternAt(h, s, first(h))

\* the loop over filename_patterns from pattern k on: the first pattern that
\* matches decides (`break`)
RECURSIVE FirstPattern(_, _)
FirstPattern(k, s) ==
    IF k > NumPatterns THEN NoFilename
    ELSE LET found == SearchPattern(k, s)
         IN  IF found # NoFilename THEN found ELSE FirstPattern(k + 1, s)

\* FindFilename looking for the name in full_content in both tools
FindFilename_InFullContent(m, t) ==
    IF t = "extractor" THEN SearchImgWa(m.full_content)
    ELSE FirstPattern(1, m.full_content)

\* the file name the loop body finds for message m, NoFilename if none
FindFilename(m, t) ==
    IF t = "extractor" THEN SearchImgWa(m.content)
    ELSE FirstPattern(1, m.full_content)

\* IsPhotoMessage without the `if match` test
IsPhotoMessage_TriggerOnly(m, t) == HasTrigger(m, t)

\* the message is appended to photo_messages
IsPhotoMessage(m, t) == HasTrigger(m, t) /\ FindFilename(m, t) # NoFilename

----------------------------------------------------------------------------
(* Themes (timeline generator)                                             *)

\* the marker re.sub removes, matched at position i:
\* IMG-\d{8}-WA\d{4}\.jpg \(file attached\), case-sensitive
MarkerAt(s, i) ==
    /\ ImgWaAt(s, i, FALSE) # NoFilename
    /\ LitAt(s, i + 23, <<" ">> \o TriggerFileAttached)

\* length of a match of the marker pattern
MarkerLen == 39

\* re.sub(marker, '', text) from position i on
RECURSIVE RemoveMarkers(_, _)
RemoveMarkers(s, i) ==
    IF i > Len(s) THEN <<>>
    ELSE IF MarkerAt(s, i) THEN RemoveMarkers(s, i + MarkerLen)
    ELSE <<s[i]>> \o RemoveMarkers(s, i + 1)

\* text.lower()
LowerText(s) == [k \in 1..Len(s) |-> Lower(s[k])]

\* the upper-case letter of each lower-case letter
UpperOf ==
    [c \in {LowerCase[k] : k \in 1..26} |->
        UpperCase[CHOOSE k \in 1..26 : LowerCase[k] = c]]

\* word.capitalize()
Capitalize(w) ==
    IF w = <<>> THEN w
    ELSE <<IF w[1] \in DOMAIN UpperOf THEN UpperOf[w[1]] ELSE w[1]>>
         \o LowerText(Tail(w))

\* \w
IsWordChar(c) ==
    \/ c \in DOMAIN UpperOf
    \/ c \in DOMAIN LowerOf
    \/ IsDigit(c)
    \/ c = "_"

\* end (exclusive) of the run of word characters that begins at i
RECURSIVE WordEnd(_, _)
WordEnd(s, i) ==
    IF i <= Len(s) /\ IsWordChar(s[i]) THEN WordEnd(s, i + 1) ELSE i

\* re.findall(r'\b\w{n,}\b', s) from position i on: the maximal runs of word
\* characters of length n or more
RECURSIVE WordsFrom(_, _, _)
WordsFrom(s, i, n) ==
    IF i > Len(s) THEN <<>>
    ELSE IF ~IsWordChar(s[i]) THEN WordsFrom(s, i + 1, n)
    ELSE LET e == WordEnd(s, i)
         IN  (IF e - i >= n THEN <<SubSeq(s, i, e - 1)>> ELSE <<>>)
             \o WordsFrom(s, e, n)

\* s[:n]
FirstN(s, n) == SubSeq(s, 1, IF Len(s) < n THEN Len(s) ELSE n)

\* the elements of a sequence
Range(s) == {s[k] : k \in 1..Len(s)}

\* the least length of a theme word
MinThemeLen == 4

\* words[:10]
MaxThemeWords == 10

ThemeStopWords ==
    {<<"t", "h", "a", "t">>,
     <<"t", "h", "i", "s">>,
     <<"w", "i", "t", "h">>,
     <<"f", "r", "o", "m">>,
     <<"t", "h", "e", "y">>,
     <<"w", "e", "r", "e">>,
     <<"b", "e", "e", "n">>,
     <<"h", "a", "v", "e">>,
     <<"w", "i", "l", "l">>,
     <<"y", "o", "u", "r">>,
     <<"w", "h", "a", "t">>,
     <<"w", "h", "e", "n">>,
     <<"w", "h", "e", "r", "e">>,
     <<"t", "h", "e", "r", "e">>,
     <<"t", "h", "e", "i", "r">>}

\* extract_themes_from_text
extract_themes_from_text(text) ==
    LET cleaned == Strip(LowerText(RemoveMarkers(text, 1)))
        words == WordsFrom(cleaned, 1, MinThemeLen)
        kept == SelectSeq(FirstN(words, MaxThemeWords),
                          LAMBDA w : w \notin ThemeStopWords
                                     /\ Len(w) >= MinThemeLen)
    IN  IF cleaned = <<>> THEN <<>>
        ELSE [k \in 1..Len(kept) |-> Capitalize(kept[k])]

----------------------------------------------------------------------------
(* Years (timeline generator): select_representative_photos and the        *)
(* helpers of organize_by_year.  Lists of messages are lists of references *)
(* into ms, the messages.                                                  *)

\* datetime.min
DatetimeMin == [year |-> 1, month |-> 1, day |-> 1, tod |-> 0]

\* the sort key: x['datetime'] or datetime.min
DateSortKey(d) == IF d = None THEN DatetimeMin ELSE d

\* list.sort(key=...): the sort is stable; x goes after the elements of the
\* sorted list whose key is not greater
InsertByDate(x, sorted, ms) ==
    LET k == Cardinality({j \in 1..Len(sorted) :
                 ~DtLess(DateSortKey(ms[x].datetime),
                         DateSortKey(ms[sorted[j]].datetime))})
    IN  SubSeq(sorted, 1, k) \o <<x>> \o SubSeq(sorted, k + 1, Len(sorted))

RECURSIVE SortByDate(_, _)
SortByDate(refs, ms) ==
    IF refs = <<>> THEN <<>>
    ELSE InsertByDate(refs[Len(refs)],
                      SortByDate(SubSeq(refs, 1, Len(refs) - 1), ms), ms)

\* the stride pass: for i in range(0, total, step), appended while fewer than
\* cap are selected; i counts from 0
\* the even-distribution pass with every step taken as 1
StridePass_StepOne(sorted, i, step, cap, selected) ==
    selected \o FirstN(SubSeq(sorted, i + 1, Len(sorted)), cap - Len(selected))

RECURSIVE StridePass(_, _, _, _, _)
StridePass(sorted, i, step, cap, selected) ==
    IF i >= Len(sorted) THEN selected
    ELSE StridePass(sorted, i + step, step, cap,
                    IF Len(selected) < cap
                    THEN Append(selected, sorted[i + 1])
                    ELSE selected)

\* msg in selected: dicts are compared by value
InList(x, refs, ms) == \E k \in 1..Len(refs) : ms[refs[k]] = ms[x]

\* s without its element at position j: list.pop(j) leaves this
WithoutAt(s, j) == SubSeq(s, 1, j - 1) \o SubSeq(s, j + 1, Len(s))

\* the random fill: every list the while loop can end with
RECURSIVE RandomFill(_, _, _)
RandomFill(selected, remaining, cap) ==
    IF Len(selected) < cap /\ remaining # <<>>
    THEN UNION {RandomFill(Append(selected, remaining[j]),
                           WithoutAt(remaining, j), cap) :
                j \in 1..Len(remaining)}
    ELSE {selected}

\* photo_messages after the call: sorted in place unless the call returned
\* at once
select_sorts_in_place(refs, max_per_year, ms) ==
    IF Len(refs) <= max_per_year THEN refs ELSE SortByDate(refs, ms)

\* select_representative_photos with a stride of twice the step
select_representative_photos_DoubleStep(refs, max_per_year, ms) ==
    IF Len(refs) <= max_per_year THEN {refs}
    ELSE LET sorted == SortByDate(refs, ms)
             step == 2 * (Len(sorted) \div max_per_year)
             selected == StridePass(sorted, 0, step, max_per_year, <<>>)
             remaining == SelectSeq(sorted,
                                    LAMBDA x : ~InList(x, selected, ms))
         IN  {FirstN(out, max_per_year) :
                 out \in RandomFill(selected, remaining, max_per_year)}

\* select_representative_photos: every list the call can return (the random
\* module decides among them)
select_representative_photos(refs, max_per_year, ms) ==
    IF Len(refs) <= max_per_year THEN {refs}
    ELSE LET sorted == SortByDate(refs, ms)
             total_photos == Len(sorted)
             step == total_photos \div max_per_year
             selected == StridePass(sorted, 0, step, max_per_year, <<>>)
             remaining == SelectSeq(sorted,
                                    LAMBDA x : ~InList(x, selected, ms))
         IN  {FirstN(out, max_per_year) :
                 out \in RandomFill(selected, remaining, max_per_year)}

\* max_per_year when the caller gives none
DefaultMaxPerYear == 6

\* the entry defaultdict makes for a year not seen before
NewYearEntry ==
    [photos |-> <<>>, themes |-> <<>>, total_messages |-> 0,
     active_months |-> {}, senders |-> {}]

\* Counter[theme] += 1: a Counter is kept as the list of <<theme, count>> in
\* the order the themes were first counted
CountTheme(counter, theme) ==
    IF \E k \in 1..Len(counter) : counter[k][1] = theme
    THEN [k \in 1..Len(counter) |->
             IF counter[k][1] = theme
             THEN <<theme, counter[k][2] + 1>> ELSE counter[k]]
    ELSE Append(counter, <<theme, 1>>)

RECURSIVE CountThemes(_, _)
CountThemes(counter, themes) ==
    IF themes = <<>> THEN counter
    ELSE CountThemes(CountTheme(counter, Head(themes)), Tail(themes))

\* Counter.most_common: by count, largest first; equal counts stay in the
\* order of first counting
InsertByCount(x, sorted) ==
    LET k == Cardinality({j \in 1..Len(sorted) : sorted[j][2] >= x[2]})
    IN  SubSeq(sorted, 1, k) \o <<x>> \o SubSeq(sorted, k + 1, Len(sorted))

RECURSIVE SortByCount(_)
SortByCount(counter) ==
    IF counter = <<>> THEN <<>>
    ELSE InsertByCount(counter[Len(counter)],
                       SortByCount(SubSeq(counter, 1, Len(counter) - 1)))

\* the number of top themes kept for a year
TopThemes == 8

most_common(counter, n) ==
    LET top == FirstN(SortByCount(counter), n)
    IN  [k \in 1..Len(top) |-> top[k][1]]

\* the digits, by value
DigitChars == <<"0", "1", "2", "3", "4", "5", "6", "7", "8", "9">>

\* str(n) for n >= 0
RECURSIVE DecStr(_)
DecStr(n) ==
    IF n < 10 THEN <<DigitChars[n + 1]>>
    ELSE DecStr(n \div 10) \o <<DigitChars[(n % 10) + 1]>>

\* sep.join(parts) for a separator of any length
RECURSIVE JoinText(_, _)
JoinText(parts, sep) ==
    IF parts = <<>> THEN <<>>
    ELSE IF Len(parts) = 1 THEN parts[1]
         ELSE parts[1] \o sep \o JoinText(Tail(parts), sep)

\* the thresholds of the activity level
VeryActiveAbove == 50
ActiveAbove == 20

\* the texts of generate_year_summary
SummaryText ==
    [very_active |->
         <<"V", "e", "r", "y", " ", "a", "c", "t", "i", "v", "e", " ", "y", "e", "a", "r">>,
     active |->
         <<"A", "c", "t", "i", "v", "e", " ", "y", "e", "a", "r">>,
     quieter |->
         <<"Q", "u", "i", "e", "t", "e", "r", " ", "y", "e", "a", "r">>,
     with |->
         <<" ", "w", "i", "t", "h", " ">>,
     photos |->
         <<" ", "p", "h", "o", "t", "o", "s">>,
     across |->
         <<"a", "c", "r", "o", "s", "s", " ">>,
     months |->
         <<" ", "m", "o", "n", "t", "h", "s">>,
     from |->
         <<"f", "r", "o", "m", " ">>,
     contributors |->
         <<" ", "c", "o", "n", "t", "r", "i", "b", "u", "t", "o", "r", "s">>,
     bullet |->
         <<" ", "BULLET", " ">>]

\* generate_year_summary
generate_year_summary(year, data, photos) ==
    LET total_photos == Len(data.photos)
        active_months == Cardinality(data.active_months)
        senders == Cardinality(data.senders)
        activity_level ==
            IF total_photos > VeryActiveAbove THEN SummaryText.very_active
            ELSE IF total_photos > ActiveAbove THEN SummaryText.active
            ELSE SummaryText.quieter
        summary_parts ==
            <<activity_level \o SummaryText.with \o DecStr(total_photos)
                  \o SummaryText.photos,
              SummaryText.across \o DecStr(active_months) \o SummaryText.months>>
            \o (IF senders > 1
                THEN <<SummaryText.from \o DecStr(senders) \o SummaryText.contributors>>
                ELSE <<>>)
    IN  JoinText(summary_parts, SummaryText.bullet)

----------------------------------------------------------------------------
(* Names of the renamed files (extractor)                                  *)

\* c.upper()
Upper(c) == IF c \in DOMAIN UpperOf THEN UpperOf[c] ELSE c

\* s.split(): the maximal runs of characters that are not whitespace
RECURSIVE SplitWhitespace(_)
SplitWhitespace(s) ==
    LET t == LStripChars(s, PyWhitespace)
        ends == {e \in 1..Len(t) : t[e] \in PyWhitespace}
        e == IF ends = {} THEN Len(t) + 1
             ELSE CHOOSE i \in ends : \A j \in ends : i <= j
    IN  IF t = <<>> THEN <<>>
        ELSE <<SubSeq(t, 1, e - 1)>> \o SplitWhitespace(From(t, e))

\* initials[:3]
MaxInitials == 3

\* get_person_initials
get_person_initials(name) ==
    LET words == SplitWhitespace(Strip(name))
    IN  FirstN([k \in 1..Len(words) |-> Upper(words[k][1])], MaxInitials)

\* 'NoText'
NoText == <<"N", "o", "T", "e", "x", "t">>

\* the stop words of extract_descriptive_words
DescriptiveStopWords ==
    {<<"t", "h", "e">>, <<"a">>, <<"a", "n">>, <<"a", "n", "d">>,
     <<"o", "r">>, <<"b", "u", "t">>, <<"i", "n">>, <<"o", "n">>,
     <<"a", "t">>, <<"t", "o">>, <<"f", "o", "r">>, <<"o", "f">>,
     <<"w", "i", "t", "h">>, <<"b", "y">>, <<"f", "r", "o", "m">>,
     <<"a", "s">>, <<"i", "s">>, <<"w", "a", "s">>, <<"a", "r", "e">>,
     <<"w", "e", "r", "e">>, <<"b", "e">>, <<"b", "e", "e", "n">>,
     <<"h", "a", "v", "e">>, <<"h", "a", "s">>, <<"h", "a", "d">>,
     <<"d", "o">>, <<"d", "o", "e", "s">>, <<"d", "i", "d">>,
     <<"w", "i", "l", "l">>, <<"w", "o", "u", "l", "d">>,
     <<"c", "o", "u", "l", "d">>, <<"s", "h", "o", "u", "l", "d">>,
     <<"m", "a", "y">>, <<"m", "i", "g", "h", "t">>, <<"m", "u", "s", "t">>,
     <<"i">>, <<"y", "o", "u">>, <<"h", "e">>, <<"s", "h", "e">>,
     <<"i", "t">>, <<"w", "e">>, <<"t", "h", "e", "y">>, <<"m", "e">>,
     <<"h", "i", "m">>, <<"h", "e", "r">>, <<"u", "s">>,
     <<"t", "h", "e", "m">>, <<"m", "y">>, <<"y", "o", "u", "r">>,
     <<"h", "i", "s">>, <<"i", "t", "s">>, <<"o", "u", "r">>,
     <<"t", "h", "e", "i", "r">>, <<"t", "h", "i", "s">>,
     <<"t", "h", "a", "t">>, <<"t", "h", "e", "s", "e">>,
     <<"t", "h", "o", "s", "e">>}

\* s.find(c): the first place of c, not the last
RFind_First(s, c) ==
    LET hits == {i \in 1..Len(s) : s[i] = c}
    IN  IF hits = {} THEN -1
        ELSE (CHOOSE i \in hits : \A j \in hits : i <= j) - 1

\* s.rfind(c) for a single character c: 0-based, -1 when c is not in s
RFind(s, c) ==
    LET hits == {i \in 1..Len(s) : s[i] = c}
    IN  IF hits = {} THEN -1
        ELSE (CHOOSE i \in hits : \A j \in hits : i >= j) - 1

\* the least length of a descriptive word, the number of words taken when
\* there is none
MinDescriptiveLen == 2
FallbackWords == 3

\* the truncation of extract_descriptive_words that never cuts
TruncateWords_Never(result, max_chars) == result

\* the truncation of extract_descriptive_words: result[:max_chars], cut back
\* to its last space when that lies beyond max_chars * 0.7
TruncateWords(result, max_chars) ==
    IF Len(result) > max_chars
    THEN LET truncated == FirstN(result, max_chars)
             last_space == RFind(truncated, " ")
         IN  IF 10 * last_space > 7 * max_chars
             THEN FirstN(truncated, last_space)
             ELSE truncated
    ELSE result

\* max_chars when the caller gives none
DefaultMaxChars == 15

\* extract_descriptive_words falling back on the lower-cased words
extract_descriptive_words_LowerFallback(text, max_chars) ==
    LET stripped == Strip(RemoveMarkers(text, 1))
        words == WordsFrom(LowerText(stripped), 1, 1)
        descriptive_words ==
            SelectSeq(words, LAMBDA w : Len(w) >= MinDescriptiveLen
                                        /\ w \notin DescriptiveStopWords)
        result == TruncateWords(
                      JoinText(IF descriptive_words = <<>>
                               THEN FirstN(words, FallbackWords)
                               ELSE descriptive_words, <<" ">>),
                      max_chars)
    IN  IF stripped = <<>> \/ words = <<>> THEN NoText ELSE result

\* extract_descriptive_words
extract_descriptive_words(text, max_chars) ==
    LET stripped == Strip(RemoveMarkers(text, 1))
        words == WordsFrom(LowerText(stripped), 1, 1)
        descriptive_words ==
            SelectSeq(words, LAMBDA w : Len(w) >= MinDescriptiveLen
                                        /\ w \notin DescriptiveStopWords)
        first_words == LET ws == WordsFrom(stripped, 1, 1)
                       IN  IF ws # <<>> THEN FirstN(ws, FallbackWords)
                           ELSE <<NoText>>
        result == TruncateWords(
                      JoinText(IF descriptive_words = <<>> THEN first_words
                               ELSE descriptive_words, <<" ">>),
                      max_chars)
    IN  IF stripped = <<>> THEN NoText
        ELSE IF result # <<>> THEN result ELSE NoText

\* the characters of [<>:"/\\|?*]
InvalidFilenameChars == {"<", ">", ":", "\"", "/", "\\", "|", "?", "*"}

\* re.sub(r'\s+', ' ', s): every run of whitespace becomes one space
RECURSIVE CollapseWhitespace(_)
CollapseWhitespace(s) ==
    IF s = <<>> THEN <<>>
    ELSE IF Head(s) \in PyWhitespace
         THEN <<" ">> \o CollapseWhitespace(LStripChars(s, PyWhitespace))
         ELSE <<Head(s)>> \o CollapseWhitespace(Tail(s))

\* max_chars of the call in sanitize_text_for_filename
MaxFilenameText == 15

\* sanitize_text_for_filename
sanitize_text_for_filename(text) ==
    LET descriptive == extract_descriptive_words(text, MaxFilenameText)
        valid == SelectSeq(descriptive,
                           LAMBDA c : c \notin InvalidFilenameChars)
        spaced == [k \in 1..Len(valid) |->
                      IF valid[k] \in {"CR", "\n", "TAB"} THEN " "
                      ELSE valid[k]]
        single == CollapseWhitespace(spaced)
    IN  IF Strip(single) # <<>> THEN Strip(single) ELSE NoText

\* s.zfill(2): zeros go after a sign
ZFill2(s) ==
    IF Len(s) >= 2 THEN s
    ELSE IF s = <<>> THEN <<"0", "0">>
    ELSE IF s[1] \in {"+", "-"} THEN <<s[1], "0">>
    ELSE <<"0", s[1]>>

\* s[-2:]
LastTwo(s) == SubSeq(s, IF Len(s) > 2 THEN Len(s) - 1 ELSE 1, Len(s))

\* the date component when the date does not give one
ZeroDate == <<"0", "0", "0", "0", "0", "0">>

\* the date component of generate_new_filename (lines 188-201): YYMMDD from
\* the three parts of message['date'] as they are written
FilenameDate(date) ==
    LET date_parts == Split(date, "/")
        day == date_parts[1]
        month == date_parts[2]
        year == date_parts[3]
    IN  IF Len(date_parts) # 3 THEN ZeroDate
        ELSE IF Len(year) = 2 /\ ~IntOK(year) THEN ZeroDate
        ELSE LastTwo(year) \o ZFill2(month) \o ZFill2(day)

\* os.path.splitext(p)[1]: from the last dot of the last path component on,
\* unless only dots come before it in that component
SplitExt(p) ==
    LET sep == RFind(p, "/")
        dot == RFind(p, ".")
    IN  IF dot > sep /\ \E i \in (sep + 2)..dot : p[i] # "."
        THEN From(p, dot + 1)
        ELSE <<>>

\* generate_new_filename
generate_new_filename(message) ==
    FilenameDate(message.date) \o <<"_">>
    \o get_person_initials(message.sender) \o <<"_">>
    \o sanitize_text_for_filename(message.full_content)
    \o SplitExt(message.image_filename)

----------------------------------------------------------------------------
(* The chat exports tried                                                  *)

MaxLines == 3

\* comma-style, an ordinary space before pm
LineCommaSpacePm ==
    <<"1", "5", "/", "1", "1", "/", "2", "0", "1", "9", ",", " ", "4",
    ":", "3", "8", " ", "p", "m", " ", "-", " ", "A", "l", "i", "c", "e",
    ":", " ", "I", "M", "G", "-", "2", "0", "1", "9", "1", "1", "1", "5",
    "-", "W", "A", "0", "0", "0", "1", ".", "j", "p", "g", " ", "(", "f",
    "i", "l", "e", " ", "a", "t", "t", "a", "c", "h", "e", "d", ")">>

\* comma-style, U+202F before pm
LineCommaNnbspPm ==
    <<"1", "5", "/", "1", "1", "/", "2", "0", "1", "9", ",", " ", "4",
    ":", "3", "8", "NNBSP", "p", "m", " ", "-", " ", "A", "l", "i", "c", "e",
    ":", " ", "I", "M", "G", "-", "2", "0", "1", "9", "1", "1", "1", "5",
    "-", "W", "A", "0", "0", "0", "1", ".", "j", "p", "g", " ", "(", "f",
    "i", "l", "e", " ", "a", "t", "t", "a", "c", "h", "e", "d", ")">>

\* comma-style, two-digit year, the trigger without an IMG-...-WA....jpg name
LineCommaNoImg ==
    <<"1", "/", "1", "/", "2", "0", ",", " ", "9", ":", "0", "5", " ",
    "-", " ", "B", "o", "b", ":", " ", "p", "h", "o", "t", "o", ".", "p",
    "n", "g", " ", "(", "f", "i", "l", "e", " ", "a", "t", "t", "a", "c",
    "h", "e", "d", ")">>

\* comma-style, no such day, two file names on the line
LineCommaUndated ==
    <<"3", "1", "/", "0", "2", "/", "1", "9", ",", " ", "9", ":", "0",
    "5", " ", "-", " ", "B", "o", "b", " ", "L", "e", "e", ":", " ", "I",
    "M", "G", "-", "2", "0", "1", "9", "0", "2", "3", "1", "-", "W", "A",
    "0", "0", "0", "2", ".", "j", "p", "g", " ", "(", "f", "i", "l", "e",
    " ", "a", "t", "t", "a", "c", "h", "e", "d", ")", " ", "I", "M", "G",
    "-", "2", "0", "1", "9", "0", "2", "3", "1", "-", "W", "A", "0", "0",
    "0", "3", ".", "j", "p", "g">>

\* bracket-style with an attachment
LineBracketAttached ==
    <<"[", "1", "5", "/", "1", "1", "/", "2", "0", "1", "9", ",", " ",
    "4", ":", "3", "8", ":", "1", "7", "NNBSP", "p", "m", "]", " ", "A", "l",
    "i", "c", "e", ":", " ", "<", "a", "t", "t", "a", "c", "h", "e", "d",
    ":", " ", "a", ".", "j", "p", "g", ">">>

\* bracket-style, a trigger without a file name
LineBracketNoFile ==
    <<"[", "1", "/", "1", "/", "2", "0", "2", "0", ",", " ", "1", ":",
    "0", "0", ":", "0", "0", "]", " ", "B", "o", "b", ":", " ", "P", "H",
    "O", "T", "O", "-", "1", " ", "l", "a", "t", "e", "r">>

\* no header: a bracketed attachment
LineAttachedB ==
    <<"<", "a", "t", "t", "a", "c", "h", "e", "d", ":", " ", "b", ".",
    "j", "p", "g", ">">>

\* a line of one space
LineSpace ==
    <<" ">>

\* a line of a space, a tab and a carriage return
LineSpaceTabCr ==
    <<" ", "TAB", "CR">>

\* a line of one left-to-right mark
LineLrm ==
    <<"LRM">>

\* the lines the extractor's chat files are made of
ExtractorPool ==
    {LineCommaSpacePm,
     LineCommaNnbspPm,
     LineCommaNoImg,
     LineCommaUndated,
     LineBracketAttached,
     LineSpaceTabCr}

\* the lines the timeline's chat files are made of
TimelinePool ==
    {LineBracketAttached,
     LineBracketNoFile,
     LineAttachedB,
     LineCommaNnbspPm,
     LineSpace,
     LineSpaceTabCr,
     LineLrm}

LinePool(t) == IF t = "extractor" THEN ExtractorPool ELSE TimelinePool

\* the chat files tried: 1..MaxLines lines of the pool joined by newlines
ChatContents(t) ==
    UNION {{Join(ls, "\n") : ls \in [1..n -> LinePool(t)]} : n \in 1..MaxLines}

ArgJan2020 == <<"1", "/", "1", "/", "2", "0">>
ArgNov2019 == <<"1", "5", "/", "1", "1", "/", "2", "0", "1", "9">>
ArgNoDate == <<"3", "1", "/", "0", "2", "/", "2", "0", "1", "9">>

\* the <<--start-date, --end-date, --last-month>> options tried (<<>>:
\* option not given)
DateArgs ==
    {<<<<>>, <<>>, FALSE>>,
     <<ArgJan2020, <<>>, FALSE>>,
     <<<<>>, ArgNov2019, FALSE>>,
     <<ArgNov2019, ArgJan2020, FALSE>>,
     <<ArgNoDate, <<>>, FALSE>>,
     <<<<>>, <<>>, TRUE>>}

\* the timeline generator has no date options
NoDateArgs == {<<<<>>, <<>>, FALSE>>}

\* timedelta(days=30)
LastMonthDays == 30

\* values datetime.now() returns in the runs tried (seconds and below
\* dropped): midnight and noon of 15/12/2019, midnight of 1/1/2020
ClockReadings ==
    {[year |-> 2019, month |-> 12, day |-> 15, tod |-> 0],
     [year |-> 2019, month |-> 12, day |-> 15, tod |-> 43200],
     [year |-> 2020, month |-> 1, day |-> 1, tod |-> 0]}

----------------------------------------------------------------------------
(* A run of main: the extractor parses, filters and looks for photos; the   *)
(* timeline generator parses and looks for photos.                         *)

\* --max-photos when the option is not given
DefaultMaxPhotos == 6

\* the stages after photo detection have not begun
YearsIdle ==
    /\ args_max_photos = DefaultMaxPhotos
    /\ years_data = <<>>
    /\ oi = 0
    /\ timeline_data = <<>>

\* no file has been extracted, no QR code generated
\* no document is being made
DocIdle ==
    /\ document = <<>>
    /\ photo_count = 0
    /\ di = 0
    /\ corrupt_members = {}

ExtractIdle ==
    /\ directory = <<>>
    /\ zip_members = {}
    /\ extracted_files = <<>>
    /\ xi = 0
    /\ new_path = <<>>
    /\ name_counter = 0
    /\ generated_codes = <<>>
    /\ qi = 0
    /\ DocIdle

\* the stages after photo detection have not begun, no direct call is made
StagesIdle ==
    /\ YearsIdle
    /\ ExtractIdle
    /\ call_args = <<>>
    /\ call_result = Pending

Init ==
    /\ StagesIdle
    /\ tool \in {"extractor", "timeline"}
    /\ pc = "main"
    /\ chat_content \in ChatContents(tool)
    /\ \E a \in (IF tool = "extractor" THEN DateArgs ELSE NoDateArgs) :
          /\ args_start = a[1]
          /\ args_end = a[2]
          /\ args_last_month = a[3]
    /\ start_date = None
    /\ end_date = None
    /\ lines = <<>>
    /\ li = 0
    /\ messages = <<>>
    /\ current_message = 0
    /\ filtered_messages = <<>>
    /\ fi = 0
    /\ photo_messages = <<>>
    /\ pi = 0
    /\ exit_status = -1
    /\ date_str = <<>>
    /\ date_result = Pending

\* the references to every message, in order: the list `messages` itself
AllRefs(ms) == [i \in 1..Len(ms) |-> i]

\* value of a date option: None when the option is absent
ArgDate(arg) == IF arg = <<>> THEN None ELSE parse_message_date(arg).value

\* main: a date option that does not parse ends the run with status 1
MainRejectDate ==
    /\ pc = "main"
    /\ ~args_last_month
    /\ \/ args_start # <<>> /\ ArgDate(args_start) = None
       \/ args_end # <<>> /\ ArgDate(args_end) = None
    /\ pc' = "done"
    /\ exit_status' = 1
    /\ UNCHANGED <<tool, chat_content, args_start, args_end, args_last_month,
                   start_date, end_date, lines, li, messages, current_message,
                   filtered_messages, fi, photo_messages, pi, date_str,
                   date_result, stage_vars>>

\* main with --last-month: the bounds are now and 30 days before now, the
\* date options are not looked at; the chat file is read
MainLastMonth ==
    /\ pc = "main"
    /\ args_last_month
    /\ \E today \in ClockReadings :
          /\ end_date' = today
          /\ start_date' = MinusDays(today, LastMonthDays)
    /\ pc' = "split"
    /\ UNCHANGED <<tool, chat_content, args_start, args_end, args_last_month,
                   lines, li, messages, current_message, filtered_messages,
                   fi, photo_messages, pi, exit_status,
                       date_str, date_result, stage_vars>>

\* main: the date options parse (or are absent); the chat file is read
MainReadChat ==
    /\ pc = "main"
    /\ ~args_last_month
    /\ args_start # <<>> => ArgDate(args_start) # None
    /\ args_end # <<>> => ArgDate(args_end) # None
    /\ start_date' = ArgDate(args_start)
    /\ end_date' = ArgDate(args_end)
    /\ pc' = "split"
    /\ UNCHANGED <<tool, chat_content, args_start, args_end, args_last_month,
                   lines, li, messages, current_message, filtered_messages,
                   fi, photo_messages, pi, exit_status,
                       date_str, date_result, stage_vars>>

\* parse_chat_messages: lines = chat_content.split('\n')
SplitLines ==
    /\ pc = "split"
    /\ lines' = Split(chat_content, "\n")
    /\ li' = 1
    /\ messages' = <<>>
    /\ current_message' = 0
    /\ pc' = "parse"
    /\ UNCHANGED <<tool, chat_content, args_start, args_end, args_last_month,
                   start_date, end_date, filtered_messages, fi,
                   photo_messages, pi, exit_status,
                       date_str, date_result, stage_vars>>

parse_frame == <<tool, chat_content, args_start, args_end, args_last_month,
                 start_date, end_date, lines, filtered_messages, fi,
                 photo_messages, pi, exit_status,
                     date_str, date_result, stage_vars>>

\* loop body: `if not line: continue`
SkipBlankLine ==
    /\ pc = "parse"
    /\ li <= Len(lines)
    /\ IsBlank(lines[li], tool)
    /\ li' = li + 1
    /\ UNCHANGED <<pc, messages, current_message, parse_frame>>

\* HeaderLine putting the new message at the front of the list
HeaderLine_AtFront ==
    /\ pc = "parse"
    /\ li <= Len(lines)
    /\ ~IsBlank(lines[li], tool)
    /\ IsHeader(CleanLine(lines[li], tool), tool)
    /\ messages' = <<NewMessage(CleanLine(lines[li], tool), tool)>> \o messages
    /\ current_message' = 1
    /\ li' = li + 1
    /\ UNCHANGED <<pc, parse_frame>>

\* loop body: the line matches message_pattern, a message is opened
HeaderLine ==
    /\ pc = "parse"
    /\ li <= Len(lines)
    /\ ~IsBlank(lines[li], tool)
    /\ IsHeader(CleanLine(lines[li], tool), tool)
    /\ messages' = Append(messages, NewMessage(CleanLine(lines[li], tool), tool))
    /\ current_message' = Len(messages) + 1
    /\ li' = li + 1
    /\ UNCHANGED <<pc, parse_frame>>

\* the guard of the else branch: `if current_message` in the extractor,
\* `if current_message and line` in the timeline
ContinuationGuard(line, cur, t) ==
    IF t = "extractor" THEN cur # 0 ELSE cur # 0 /\ line # <<>>

\* ContinuationLine adding the line to the first message of the list
ContinuationLine_ToFirst ==
    /\ pc = "parse"
    /\ li <= Len(lines)
    /\ ~IsBlank(lines[li], tool)
    /\ ~IsHeader(CleanLine(lines[li], tool), tool)
    /\ ContinuationGuard(CleanLine(lines[li], tool), current_message, tool)
    /\ messages' = [messages EXCEPT ![1].full_content =
                        @ \o <<"\n">> \o CleanLine(lines[li], tool)]
    /\ li' = li + 1
    /\ UNCHANGED <<pc, current_message, parse_frame>>

\* loop body: no match, the line is added to the open message
ContinuationLine ==
    /\ pc = "parse"
    /\ li <= Len(lines)
    /\ ~IsBlank(lines[li], tool)
    /\ ~IsHeader(CleanLine(lines[li], tool), tool)
    /\ ContinuationGuard(CleanLine(lines[li], tool), current_message, tool)
    /\ messages' = [messages EXCEPT ![current_message].full_content =
                        @ \o <<"\n">> \o CleanLine(lines[li], tool)]
    /\ li' = li + 1
    /\ UNCHANGED <<pc, current_message, parse_frame>>

\* loop body: no match and the guard fails, the line is dropped
DropLine ==
    /\ pc = "parse"
    /\ li <= Len(lines)
    /\ ~IsBlank(lines[li], tool)
    /\ ~IsHeader(CleanLine(lines[li], tool), tool)
    /\ ~ContinuationGuard(CleanLine(lines[li], tool), current_message, tool)
    /\ li' = li + 1
    /\ UNCHANGED <<pc, messages, current_message, parse_frame>>

\* parse_chat_messages returns; the extractor goes on to the date filter,
\* the timeline to find_photo_messages(messages)
ParseDone ==
    /\ pc = "parse"
    /\ li > Len(lines)
    /\ IF tool = "extractor"
       THEN /\ pc' = "filter"
            /\ fi' = 1
            /\ UNCHANGED <<filtered_messages, pi>>
       ELSE /\ pc' = "find"
            /\ filtered_messages' = AllRefs(messages)
            /\ pi' = 1
            /\ fi' = fi
    /\ UNCHANGED <<tool, chat_content, args_start, args_end, args_last_month,
                   start_date, end_date, lines, li, messages, current_message,
                   photo_messages, exit_status,
                       date_str, date_result, stage_vars>>

filter_frame == <<tool, chat_content, args_start, args_end, args_last_month,
                  start_date, end_date, lines, li, messages, current_message,
                  photo_messages, exit_status,
                      date_str, date_result, stage_vars>>

\* FilterNoBounds dropping the messages without a date
FilterNoBounds_DropsUndated ==
    /\ pc = "filter"
    /\ start_date = None /\ end_date = None
    /\ filtered_messages' = SelectSeq(AllRefs(messages),
                                      LAMBDA r : messages[r].datetime # None)
    /\ pc' = "find"
    /\ pi' = 1
    /\ UNCHANGED <<fi, filter_frame>>

\* filter_messages_by_date with neither bound: `return messages`
FilterNoBounds ==
    /\ pc = "filter"
    /\ start_date = None /\ end_date = None
    /\ filtered_messages' = AllRefs(messages)
    /\ pc' = "find"
    /\ pi' = 1
    /\ UNCHANGED <<fi, filter_frame>>

\* InRange with both bounds exclusive
InRange_Exclusive(d, lo, hi) ==
    /\ d # None
    /\ ~(lo # None /\ ~DtLess(lo, d))
    /\ ~(hi # None /\ ~DtLess(d, hi))

\* the test the filter loop makes on a message's date
InRange(d, lo, hi) ==
    /\ d # None
    /\ ~(lo # None /\ DtLess(d, lo))
    /\ ~(hi # None /\ DtLess(hi, d))

\* filter loop body: the message is kept
FilterKeep ==
    /\ pc = "filter"
    /\ start_date # None \/ end_date # None
    /\ fi <= Len(messages)
    /\ InRange(messages[fi].datetime, start_date, end_date)
    /\ filtered_messages' = Append(filtered_messages, fi)
    /\ fi' = fi + 1
    /\ UNCHANGED <<pc, pi, filter_frame>>

\* filter loop body: the message has no date or lies outside a bound
FilterDrop ==
    /\ pc = "filter"
    /\ start_date # None \/ end_date # None
    /\ fi <= Len(messages)
    /\ ~InRange(messages[fi].datetime, start_date, end_date)
    /\ fi' = fi + 1
    /\ UNCHANGED <<pc, filtered_messages, pi, filter_frame>>

\* filter_messages_by_date returns filtered_messages
FilterDone ==
    /\ pc = "filter"
    /\ start_date # None \/ end_date # None
    /\ fi > Len(messages)
    /\ pc' = "find"
    /\ pi' = 1
    /\ UNCHANGED <<filtered_messages, fi, filter_frame>>

find_frame == <<tool, chat_content, args_start, args_end, args_last_month,
                start_date, end_date, lines, li, current_message,
                filtered_messages, fi, exit_status,
                    date_str, date_result, stage_vars>>

\* find loop body: trigger and file name found, the message is recorded
FindPhoto ==
    /\ pc = "find"
    /\ pi <= Len(filtered_messages)
    /\ IsPhotoMessage(messages[filtered_messages[pi]], tool)
    /\ messages' = [messages EXCEPT ![filtered_messages[pi]].image_filename =
                        FindFilename(messages[filtered_messages[pi]], tool)]
    /\ photo_messages' = Append(photo_messages, filtered_messages[pi])
    /\ pi' = pi + 1
    /\ UNCHANGED <<pc, find_frame>>

\* find loop body: no trigger, or no file name: nothing is recorded
FindSkip ==
    /\ pc = "find"
    /\ pi <= Len(filtered_messages)
    /\ ~IsPhotoMessage(messages[filtered_messages[pi]], tool)
    /\ pi' = pi + 1
    /\ UNCHANGED <<pc, messages, photo_messages, find_frame>>

\* find_photo_messages returns photo_messages
FindDone ==
    /\ pc = "find"
    /\ pi > Len(filtered_messages)
    /\ pc' = "found"
    /\ UNCHANGED <<messages, photo_messages, pi, find_frame>>

\* main: `if not photo_messages: return 0`
NoPhotosExit ==
    /\ pc = "found"
    /\ photo_messages = <<>>
    /\ pc' = "done"
    /\ exit_status' = 0
    /\ UNCHANGED <<tool, chat_content, args_start, args_end, args_last_month,
                   start_date, end_date, lines, li, messages, current_message,
                   filtered_messages, fi, photo_messages, pi, date_str,
                   date_result, stage_vars>>

Next ==
    \/ MainRejectDate
    \/ MainLastMonth
    \/ MainReadChat
    \/ SplitLines
    \/ SkipBlankLine
    \/ HeaderLine
    \/ ContinuationLine
    \/ DropLine
    \/ ParseDone
    \/ FilterNoBounds
    \/ FilterKeep
    \/ FilterDrop
    \/ FilterDone
    \/ FindPhoto
    \/ FindSkip
    \/ FindDone
    \/ NoPhotosExit

Spec == Init /\ [][Next]_vars

----------------------------------------------------------------------------
(* The timeline generator after photo detection: organize_by_year          *)

\* what the actions of this stage leave alone
run_frame == <<tool, chat_content, args_start, args_end, args_last_month,
               start_date, end_date, lines, li, messages, current_message,
               filtered_messages, fi, photo_messages, pi, date_str,
               date_result, call_vars, extract_vars, qr_vars, doc_vars>>

\* main: there are photo messages, organize_by_year is called
OrganizeStart ==
    /\ tool = "timeline"
    /\ pc = "found"
    /\ photo_messages # <<>>
    /\ pc' = "organize"
    /\ oi' = 1
    /\ years_data' = <<>>
    /\ timeline_data' = <<>>
    /\ UNCHANGED <<run_frame, exit_status, args_max_photos>>

\* OrganizeSkipUndated gathering the message under the year of datetime.min
OrganizeSkipUndated_UnderMinYear ==
    /\ pc = "organize"
    /\ oi <= Len(photo_messages)
    /\ messages[photo_messages[oi]].datetime = None
    /\ LET year == DatetimeMin.year
           old == IF year \in DOMAIN years_data THEN years_data[year]
                  ELSE NewYearEntry
           new == [old EXCEPT !.photos = Append(@, photo_messages[oi]),
                              !.total_messages = @ + 1]
       IN  years_data' = [y \in DOMAIN years_data \cup {year} |->
                             IF y = year THEN new ELSE years_data[y]]
    /\ oi' = oi + 1
    /\ UNCHANGED <<run_frame, pc, exit_status, args_max_photos,
                   timeline_data>>

\* first loop: a message without a datetime is passed over
OrganizeSkipUndated ==
    /\ pc = "organize"
    /\ oi <= Len(photo_messages)
    /\ messages[photo_messages[oi]].datetime = None
    /\ oi' = oi + 1
    /\ UNCHANGED <<run_frame, pc, exit_status, args_max_photos, years_data,
                   timeline_data>>

\* first loop: a dated message is gathered under its year
OrganizeAdd ==
    /\ pc = "organize"
    /\ oi <= Len(photo_messages)
    /\ messages[photo_messages[oi]].datetime # None
    /\ LET message == messages[photo_messages[oi]]
           year == message.datetime.year
           old == IF year \in DOMAIN years_data THEN years_data[year]
                  ELSE NewYearEntry
           new == [photos |-> Append(old.photos, photo_messages[oi]),
                   themes |-> CountThemes(old.themes,
                       extract_themes_from_text(message.full_content)),
                   total_messages |-> old.total_messages + 1,
                   active_months |->
                       old.active_months \cup {message.datetime.month},
                   senders |-> old.senders \cup {message.sender}]
       IN  years_data' = [y \in DOMAIN years_data \cup {year} |->
                             IF y = year THEN new ELSE years_data[y]]
    /\ oi' = oi + 1
    /\ UNCHANGED <<run_frame, pc, exit_status, args_max_photos,
                   timeline_data>>

\* the first loop is over
OrganizeGathered ==
    /\ pc = "organize"
    /\ oi > Len(photo_messages)
    /\ pc' = "years"
    /\ UNCHANGED <<run_frame, exit_status, years_vars>>

\* the years of years_data not processed yet
YearsToDo ==
    DOMAIN years_data \ {timeline_data[k].year : k \in 1..Len(timeline_data)}

\* second loop, over sorted(years_data.keys()): the next year is processed
ProcessYear ==
    /\ pc = "years"
    /\ YearsToDo # {}
    /\ LET year == CHOOSE y \in YearsToDo : \A z \in YearsToDo : y <= z
           before == years_data[year]
           data == [before EXCEPT !.photos =
                       select_sorts_in_place(@, DefaultMaxPerYear, messages)]
       IN  \E selected_photos \in
               select_representative_photos(before.photos, DefaultMaxPerYear,
                                            messages) :
               /\ years_data' = [years_data EXCEPT ![year] = data]
               /\ timeline_data' = Append(timeline_data,
                     [year |-> year,
                      photos |-> selected_photos,
                      themes |-> most_common(data.themes, TopThemes),
                      total_photos |-> Len(data.photos),
                      total_messages |-> data.total_messages,
                      active_months |-> Cardinality(data.active_months),
                      summary |-> generate_year_summary(year, data,
                                                        selected_photos)])
    /\ UNCHANGED <<run_frame, pc, exit_status, args_max_photos, oi>>

\* organize_by_year returns processed_years
OrganizeReturn ==
    /\ pc = "years"
    /\ YearsToDo = {}
    /\ pc' = "organized"
    /\ UNCHANGED <<run_frame, exit_status, years_vars>>

\* photo lines of the timeline generator: March 2019, January 2020, no date
LineMar2019 ==
    <<"[", "1", "/", "3", "/", "2", "0", "1", "9", ",", " ", "9", ":", "0",
      "0", ":", "0", "0", "]", " ", "B", "o", "b", ":", " ", "<", "a", "t",
      "t", "a", "c", "h", "e", "d", ":", " ", "c", ".", "j", "p", "g", ">",
      " ", "B", "r", "i", "d", "g", "e", " ", "d", "e", "c", "k", " ", "w",
      "i", "t", "h", " ", "r", "a", "i", "l", "i", "n", "g">>

LineJan2020 ==
    <<"[", "1", "/", "1", "/", "2", "0", "2", "0", ",", " ", "1", ":", "0",
      "0", ":", "0", "0", "]", " ", "B", "o", "b", ":", " ", "<", "a", "t",
      "t", "a", "c", "h", "e", "d", ":", " ", "d", ".", "j", "p", "g", ">",
      " ", "B", "r", "i", "d", "g", "e", " ", "o", "p", "e", "n", "e", "d">>

LineNoDatePhoto ==
    <<"[", "3", "1", "/", "0", "2", "/", "2", "0", "1", "9", ",", " ", "1",
      ":", "0", "0", ":", "0", "0", "]", " ", "A", "l", "i", "c", "e", ":",
      " ", "<", "a", "t", "t", "a", "c", "h", "e", "d", ":", " ", "e", ".",
      "j", "p", "g", ">">>

\* the photo lines a run can have found
PhotoLinePool ==
    {LineBracketAttached, LineMar2019, LineJan2020, LineNoDatePhoto}

\* longest list of photo lines tried in full
MaxPhotos == 4

\* a year of more photos than the default cap: DefaultMaxPerYear + 1 lines
\* of 2019, November and March in turn
LongYear ==
    [k \in 1..DefaultMaxPerYear + 1 |->
        IF k % 2 = 1 THEN LineBracketAttached ELSE LineMar2019]

PhotoLineLists ==
    UNION {[1..n -> PhotoLinePool] : n \in 1..MaxPhotos} \cup {LongYear}

\* the values of --max-photos tried
MaxPhotosArgs == {1, 2, DefaultMaxPhotos}

\* the message find_photo_messages leaves for a photo line
PhotoMessage(line) ==
    LET m == NewMessage(line, "timeline")
    IN  [m EXCEPT !.image_filename = FindFilename(m, "timeline")]

\* the timeline generator has parsed a chat of photo lines and found a
\* photo message in each line
YearsFound ==
    /\ tool = "timeline"
    /\ pc = "found"
    /\ args_start = <<>>
    /\ args_end = <<>>
    /\ args_last_month = FALSE
    /\ start_date = None
    /\ end_date = None
    /\ lines \in PhotoLineLists
    /\ chat_content = Join(lines, "\n")
    /\ li = Len(lines) + 1
    /\ messages = [k \in 1..Len(lines) |-> PhotoMessage(lines[k])]
    /\ current_message = Len(lines)
    /\ filtered_messages = AllRefs(messages)
    /\ fi = 0
    /\ photo_messages = AllRefs(messages)
    /\ pi = Len(lines) + 1
    /\ exit_status = -1
    /\ date_str = <<>>
    /\ date_result = Pending
    /\ years_data = <<>>
    /\ oi = 0
    /\ timeline_data = <<>>
    /\ call_args = <<>>
    /\ call_result = Pending

InitYears ==
    /\ YearsFound
    /\ args_max_photos \in MaxPhotosArgs
    /\ ExtractIdle

NextYears ==
    \/ OrganizeStart
    \/ OrganizeSkipUndated
    \/ OrganizeAdd
    \/ OrganizeGathered
    \/ ProcessYear
    \/ OrganizeReturn

SpecYears == InitYears /\ [][NextYears]_vars

----------------------------------------------------------------------------
(* Claims about parse_chat_messages                                        *)

\* the loop variable `line` for line i of the chat file
Cleaned(i) == CleanLine(lines[i], tool)

\* line i opens a message: it is not skipped and matches message_pattern
IsHeaderLine(i) == ~IsBlank(lines[i], tool) /\ IsHeader(Cleaned(i), tool)

\* the header lines among the lines the loop has processed, in file order
HeadersSeen == SelectSeq([i \in 1..li - 1 |-> i], LAMBDA i : IsHeaderLine(i))

\* C1: at every point of the parse loop, its end included (the list then is
\* what parse_chat_messages returns), there is exactly one record per
\* processed line that (once stripped by the tool) matches the tool's header
\* pattern, in file order, carrying that line's date, sender and content; so
\* no other line creates a record and lines before the first header leave
\* the list empty.
C1_OneRecordPerHeader ==
    pc = "parse" =>
        /\ Len(messages) = Len(HeadersSeen)
        /\ \A k \in 1..Len(messages) :
              LET g == HeaderGroups(Cleaned(HeadersSeen[k]), tool)
              IN  /\ messages[k].date = g.date
                  /\ messages[k].sender = Strip(g.sender)
                  /\ messages[k].content = Strip(g.content)

\* the extractor has parsed a file whose first line is no header for it and
\* whose next two lines are: two records, in file order
C1_Witness ==
    /\ tool = "extractor"
    /\ pc = "parse"
    /\ lines = <<LineBracketAttached, LineCommaNnbspPm, LineCommaNoImg>>
    /\ li = 4
    /\ Len(messages) = 2
    /\ messages[1].sender = <<"A", "l", "i", "c", "e">>
    /\ messages[2].sender = <<"B", "o", "b">>
    /\ messages[1].full_content = messages[1].content

\* C2: a step of the parse loop on a line that is non-empty (as the loop
\* variable, after the tool's cleaning), does not match the header pattern
\* and finds a message open appends a newline and the line to full_content of
\* the last record; it adds no record and changes nothing else of any record.
C2_ContinuationAppends ==
    [][(/\ pc = "parse"
        /\ li <= Len(lines)
        /\ messages # <<>>
        /\ CleanLine(lines[li], tool) # <<>>
        /\ ~IsHeader(CleanLine(lines[li], tool), tool))
       => /\ Len(messages') = Len(messages)
          /\ \A k \in 1..Len(messages) :
                IF k = Len(messages)
                THEN messages'[k] =
                        [messages[k] EXCEPT !.full_content =
                            @ \o <<"\n">> \o CleanLine(lines[li], tool)]
                ELSE messages'[k] = messages[k]]_vars

\* the timeline parser has two records and the second one has taken a
\* continuation line, the first one none
C2_Witness ==
    /\ tool = "timeline"
    /\ pc = "parse"
    /\ Len(messages) = 2
    /\ messages[1].full_content = messages[1].content
    /\ messages[2].full_content =
          messages[2].content \o <<"\n">> \o LineAttachedB

\* C3: the extractor run without date options on the single line
\* "15/11/2019, 4:38 pm - Alice: IMG-20191115-WA0001.jpg (file attached)"
\* (ordinary space before pm) ends parse and photo detection with exactly one
\* message, of sender Alice and image_filename IMG-20191115-WA0001.jpg.
C3_OrdinarySpaceLineParsed ==
    (/\ tool = "extractor"
     /\ chat_content = LineCommaSpacePm
     /\ args_start = <<>> /\ args_end = <<>> /\ ~args_last_month
     /\ pc \in {"found", "done"})
    => /\ Len(messages) = 1
       /\ messages[1].sender = <<"A", "l", "i", "c", "e">>
       /\ messages[1].image_filename =
             <<"I", "M", "G", "-", "2", "0", "1", "9", "1", "1", "1", "5",
               "-", "W", "A", "0", "0", "0", "1", ".", "j", "p", "g">>
       /\ photo_messages = <<1>>

\* the two header grammars: `DATE, TIME - SENDER: CONTENT` with a year of two
\* to four digits, and `[DATE, TIME] SENDER: CONTENT` with a year of four
\* digits and a time with seconds
CommaGrammar ==
    [open |-> <<>>, sep |-> <<" ", "-", " ">>, ylo |-> 2, yhi |-> 4,
     secs |-> FALSE]

BracketGrammar ==
    [open |-> <<"[">>, sep |-> <<"]", " ">>, ylo |-> 4, yhi |-> 4,
     secs |-> TRUE]

CommaStyle(s) == ShapeMatches(s, CommaGrammar) # {}

BracketStyle(s) == ShapeMatches(s, BracketGrammar) # {}

\* parse_chat_messages has returned
ParseReturned == li >= 1 /\ li > Len(lines) /\ pc # "parse"

\* C4 as claimed: in both tools every comma-style line and every
\* bracket-style line begins a message, so the parse returns one record for
\* each line of either style.
C4_BothGrammarsInEachTool ==
    ParseReturned =>
        Len(messages) =
            Cardinality({i \in 1..Len(lines) :
                            CommaStyle(Cleaned(i)) \/ BracketStyle(Cleaned(i))})

\* C4, amended: a step of the parse loop on a comma-style line opens a
\* message in the extractor and on a bracket-style line in the timeline
\* generator; on a line of the other style (bracket-style in the extractor,
\* comma-style in the timeline generator) it opens none.
C4_OwnGrammarOnly ==
    [][(pc = "parse" /\ li <= Len(lines))
       => LET own == IF tool = "extractor" THEN CommaStyle(Cleaned(li))
                     ELSE BracketStyle(Cleaned(li))
              other == IF tool = "extractor" THEN BracketStyle(Cleaned(li))
                       ELSE CommaStyle(Cleaned(li))
          IN  /\ own => /\ Len(messages') = Len(messages) + 1
                        /\ current_message' = Len(messages')
                        /\ messages'[Len(messages')].full_content =
                              messages'[Len(messages')].content
              /\ other => /\ Len(messages') = Len(messages)
                          /\ current_message' = current_message]_vars

\* the extractor took a bracket-style line as a continuation of the open
\* comma-style message
C4_Witness ==
    /\ tool = "extractor"
    /\ pc = "parse"
    /\ li = 3
    /\ lines[1] = LineCommaNnbspPm
    /\ lines[2] = LineBracketAttached
    /\ Len(messages) = 1
    /\ messages[1].full_content =
          messages[1].content \o <<"\n">> \o LineBracketAttached

----------------------------------------------------------------------------
(* Claims about filter_messages_by_date                                    *)

\* the calendar date of a datetime as one number
DateKey(d) == d.year * 10000 + d.month * 100 + d.day

\* a <= b on datetimes: by calendar date, then by time of day
NotAfter(a, b) ==
    \/ DateKey(a) < DateKey(b)
    \/ DateKey(a) = DateKey(b) /\ a.tod <= b.tod

\* filter_messages_by_date has returned in a run of the extractor
FilterReturned ==
    /\ tool = "extractor"
    /\ pc \in {"find", "found"} \/ (pc = "done" /\ exit_status = 0)

\* the message's date is present and within the bounds that are given
WithinBounds(r) ==
    /\ messages[r].datetime # None
    /\ start_date # None => NotAfter(start_date, messages[r].datetime)
    /\ end_date # None => NotAfter(messages[r].datetime, end_date)

\* C7: with at least one bound, filter_messages_by_date returns exactly the
\* messages, in input order, that have a date with start <= date (if start is
\* given) and date <= end (if end is given); undated messages and messages
\* outside a bound are dropped.
C7_FilterKeepsExactlyInRange ==
    (FilterReturned /\ (start_date # None \/ end_date # None)) =>
        filtered_messages =
            SelectSeq(AllRefs(messages), LAMBDA r : WithinBounds(r))

\* with only a start bound of 1/1/2020: the message of 15/11/2019 and the
\* undated one are dropped, the message dated on the bound is kept
C7_Witness ==
    /\ tool = "extractor"
    /\ pc = "find"
    /\ start_date = [year |-> 2020, month |-> 1, day |-> 1, tod |-> 0]
    /\ end_date = None
    /\ Len(messages) = 3
    /\ messages[1].datetime =
          [year |-> 2019, month |-> 11, day |-> 15, tod |-> 0]
    /\ messages[2].datetime = None
    /\ messages[3].datetime = start_date
    /\ filtered_messages = <<3>>

\* with --last-month at noon of 15/12/2019 the lower bound is noon of
\* 15/11/2019: the message of 15/11/2019 (midnight) is before it and dropped
C7_WitnessLastMonth ==
    /\ tool = "extractor"
    /\ pc = "find"
    /\ start_date = [year |-> 2019, month |-> 11, day |-> 15, tod |-> 43200]
    /\ Len(messages) = 1
    /\ messages[1].datetime =
          [year |-> 2019, month |-> 11, day |-> 15, tod |-> 0]
    /\ filtered_messages = <<>>

\* C8: with neither bound filter_messages_by_date returns its input: every
\* message, undated ones included, in the same order.
C8_NoBoundsIsNoOp ==
    (FilterReturned /\ start_date = None /\ end_date = None) =>
        filtered_messages = AllRefs(messages)

\* a run without bounds passed an undated message through the filter
C8_Witness ==
    /\ tool = "extractor"
    /\ pc = "find"
    /\ start_date = None /\ end_date = None
    /\ Len(messages) = 2
    /\ messages[1].datetime = None
    /\ messages[2].datetime # None
    /\ filtered_messages = <<1, 2>>

----------------------------------------------------------------------------
(* Claims about find_photo_messages                                        *)

\* find_photo_messages has returned
FindReturned == pc = "found"

\* the IMG-<8 digits>-WA<4 digits>.jpg pattern matches somewhere in s
HasImgWaName(s) == \E i \in 1..Len(s) : ImgWaAt(s, i, FALSE) # NoFilename

\* message r has the trigger "(file attached)" (in its first line or in a
\* continuation line)
HasFileAttached(r) ==
    Contains(messages[r].full_content, TriggerFileAttached)

\* C9: when the extractor's find_photo_messages has returned, a message with
\* the trigger "(file attached)" in which the file-name pattern does not
\* match is not in photo_messages and has no image_filename, and the messages
\* after it were still examined: every message with the trigger and a
\* matching name in its first line is in photo_messages.
C9_TriggerWithoutNameExcluded ==
    (tool = "extractor" /\ FindReturned) =>
        \A n \in 1..Len(filtered_messages) :
            LET r == filtered_messages[n]
            IN  /\ (HasFileAttached(r) /\ ~HasImgWaName(messages[r].content))
                      => /\ \A k \in 1..Len(photo_messages) :
                               photo_messages[k] # r
                         /\ messages[r].image_filename = NoFilename
                /\ (HasFileAttached(r) /\ HasImgWaName(messages[r].content))
                      => \E k \in 1..Len(photo_messages) :
                            photo_messages[k] = r

\* "photo.png (file attached)" was passed over and the message after it was
\* recorded
C9_Witness ==
    /\ tool = "extractor"
    /\ pc = "found"
    /\ Len(filtered_messages) = 2
    /\ messages[1].content = <<"p", "h", "o", "t", "o", ".", "p", "n", "g", " ", "(", "f", "i",
            "l", "e", " ", "a", "t", "t", "a", "c", "h", "e", "d", ")">>
    /\ messages[1].image_filename = NoFilename
    /\ photo_messages = <<2>>

\* the text in which the tool looks for the file name
SearchedText(r) ==
    IF tool = "extractor" THEN messages[r].content
    ELSE messages[r].full_content

\* a match of pattern k of the tool at position i of s (the extractor has
\* the one pattern, case-sensitive)
ToolPatternAt(k, s, i) ==
    IF tool = "extractor" THEN ImgWaAt(s, i, FALSE) ELSE PatternAt(k, s, i)

ToolPatterns == IF tool = "extractor" THEN {1} ELSE 1..NumPatterns

\* f is the first match in s: the leftmost match of the first pattern of the
\* list that matches anywhere
IsFirstMatch(f, s) ==
    \E k \in ToolPatterns : \E i \in 1..Len(s) :
        /\ ToolPatternAt(k, s, i) = f
        /\ \A j \in 1..i - 1 : ToolPatternAt(k, s, j) = NoFilename
        /\ \A h \in 1..k - 1 : \A j \in 1..Len(s) :
              ToolPatternAt(h, s, j) = NoFilename

\* C10: the list find_photo_messages returns is an order-preserving
\* subsequence of its input with no message twice, every message in it
\* carries one image_filename, which is the first match in the text
\* searched, and the messages not in it carry none.
C10_PhotoSubsequenceFirstMatch ==
    FindReturned =>
        /\ \A k \in 1..Len(photo_messages) :
              /\ \E n \in 1..Len(filtered_messages) :
                    filtered_messages[n] = photo_messages[k]
              /\ k > 1 => photo_messages[k - 1] < photo_messages[k]
              /\ messages[photo_messages[k]].image_filename # NoFilename
              /\ IsFirstMatch(messages[photo_messages[k]].image_filename,
                              SearchedText(photo_messages[k]))
        /\ \A r \in 1..Len(messages) :
              (\A k \in 1..Len(photo_messages) : photo_messages[k] # r)
                  => messages[r].image_filename = NoFilename

\* a timeline message of two lines with an attachment reference on each was
\* recorded once, under the first name
C10_Witness ==
    /\ tool = "timeline"
    /\ pc = "found"
    /\ Len(messages) = 1
    /\ messages[1].full_content =
          <<"<", "a", "t", "t", "a", "c", "h", "e", "d", ":", " ", "a", ".",
            "j", "p", "g", ">">> \o <<"\n">> \o LineAttachedB
    /\ photo_messages = <<1>>
    /\ messages[1].image_filename = <<"a", ".", "j", "p", "g">>

\* the positions of s where pattern k of the timeline generator matches
MatchPositions(k, s) == {i \in 1..Len(s) : PatternAt(k, s, i) # NoFilename}

\* the patterns of the timeline generator that match somewhere in s
MatchingPatterns(s) == {k \in 1..NumPatterns : MatchPositions(k, s) # {}}

\* C11: when the timeline generator's find_photo_messages has returned, a
\* message with a trigger in which some pattern matches is in photo_messages
\* with a file name matched by the pattern of highest priority (smallest
\* index in the order bracketed-attachment, IMG-WA, digits-PHOTO, generic)
\* among the patterns that match anywhere in full_content, wherever the
\* matches of the other patterns are; a message with a trigger in which no
\* pattern matches is not in photo_messages and has no file name.
C11_FirstPatternWins ==
    (tool = "timeline" /\ FindReturned) =>
        \A r \in 1..Len(messages) :
            HasTrigger(messages[r], "timeline") =>
                LET s == messages[r].full_content
                    ks == MatchingPatterns(s)
                IN  IF ks = {}
                    THEN /\ messages[r].image_filename = NoFilename
                         /\ \A n \in 1..Len(photo_messages) :
                               photo_messages[n] # r
                    ELSE LET k == CHOOSE h \in ks : \A g \in ks : h <= g
                         IN  /\ \E i \in MatchPositions(k, s) :
                                   PatternAt(k, s, i) =
                                       messages[r].image_filename
                             /\ \E n \in 1..Len(photo_messages) :
                                   photo_messages[n] = r

\* a message in which the IMG-WA pattern (and the generic one) matches in the
\* second line and the bracketed-attachment pattern in the third has the name
\* of the bracketed attachment
C11_Witness ==
    /\ tool = "timeline"
    /\ pc = "found"
    /\ lines = <<LineBracketNoFile, LineCommaNnbspPm, LineAttachedB>>
    /\ Len(messages) = 1
    /\ MatchPositions(2, messages[1].full_content) # {}
    /\ photo_messages = <<1>>
    /\ messages[1].image_filename = <<"b", ".", "j", "p", "g">>

----------------------------------------------------------------------------
(* Claims about organize_by_year and select_representative_photos          *)

\* the positions of photo_messages whose message has a parsed date
DatedPhotos ==
    {n \in 1..Len(photo_messages) :
        messages[photo_messages[n]].datetime # None}

\* the calendar years of the dated photo messages
PhotoYears == {messages[photo_messages[n]].datetime.year : n \in DatedPhotos}

\* the sum of total_photos over the first k buckets
RECURSIVE SumTotalPhotos(_)
SumTotalPhotos(k) ==
    IF k = 0 THEN 0
    ELSE timeline_data[k].total_photos + SumTotalPhotos(k - 1)

\* organize_by_year has returned
Organized == pc = "organized"

\* C12: what organize_by_year returns has exactly one bucket per calendar
\* year of the dated photo messages, in ascending year order; the photos
\* gathered for a year are exactly the dated photo messages of that year and
\* total_photos is their number, so no undated message is in any bucket and
\* the counts sum to the number of dated photo messages.
C12_OneBucketPerYear ==
    Organized =>
        /\ Len(timeline_data) = Cardinality(PhotoYears)
        /\ DOMAIN years_data = PhotoYears
        /\ \A k \in 1..Len(timeline_data) :
              LET y == timeline_data[k].year
                  of_year == {n \in DatedPhotos :
                      messages[photo_messages[n]].datetime.year = y}
              IN  /\ y \in PhotoYears
                  /\ k > 1 => timeline_data[k - 1].year < y
                  /\ Range(years_data[y].photos) =
                        {photo_messages[n] : n \in of_year}
                  /\ Len(years_data[y].photos) = Cardinality(of_year)
                  /\ timeline_data[k].total_photos = Cardinality(of_year)
                  /\ Range(timeline_data[k].photos)
                        \subseteq Range(years_data[y].photos)
        /\ SumTotalPhotos(Len(timeline_data)) = Cardinality(DatedPhotos)

\* four photo messages, of November 2019, without a date, of January 2020
\* and of March 2019, gave the bucket of 2019 with 2 photos and then the
\* bucket of 2020 with 1
C12_Witness ==
    /\ Organized
    /\ lines = <<LineBracketAttached, LineNoDatePhoto, LineJan2020,
                 LineMar2019>>
    /\ Len(timeline_data) = 2
    /\ timeline_data[1].year = 2019
    /\ timeline_data[1].total_photos = 2
    /\ timeline_data[2].year = 2020
    /\ timeline_data[2].total_photos = 1

\* C14: in a timeline run started with --max-photos N, every year section
\* holds at most N photos, and the section of a year with more than N photos
\* holds exactly N. (main reads --max-photos and calls organize_by_year
\* without it, so the cap of every run is the default.)
C14_MaxPhotosCapsEveryYear ==
    Organized =>
        \A k \in 1..Len(timeline_data) :
            /\ Len(timeline_data[k].photos) <= args_max_photos
            /\ timeline_data[k].total_photos > args_max_photos
                  => Len(timeline_data[k].photos) = args_max_photos

----------------------------------------------------------------------------
(* Direct calls of parse_message_date (as main does on --start-date and    *)
(* --end-date, which are free text)                                        *)

MaxParts == 4

\* day parts tried: in range, out of range, not a number, signed, empty
DayPool ==
    {<<"1">>,
     <<"0", "1">>,
     <<"1", "5">>,
     <<"2", "9">>,
     <<"3", "0">>,
     <<"3", "1">>,
     <<"3", "2">>,
     <<"0">>,
     <<"x">>,
     <<"+", "5">>,
     <<>>}

\* month parts tried
MonthPool ==
    {<<"1">>,
     <<"0", "1">>,
     <<"0", "2">>,
     <<"2">>,
     <<"4">>,
     <<"1", "1">>,
     <<"1", "2">>,
     <<"1", "3">>,
     <<"0">>,
     <<"1", "x">>}

\* year parts tried: two digits around the pivot, four digits, leap and
\* non-leap years, other widths
YearPool ==
    {<<"0", "0">>,
     <<"4", "9">>,
     <<"5", "0">>,
     <<"9", "9">>,
     <<"1", "9">>,
     <<"2", "0">>,
     <<"2", "0", "1", "9">>,
     <<"2", "0", "2", "0">>,
     <<"1", "9", "0", "0">>,
     <<"2", "0", "0", "0">>,
     <<"0", "0", "0", "0">>,
     <<"0", "1", "9">>,
     <<"x", "9">>,
     <<"+", "5">>,
     <<"2", "0", "1", "9", "0">>}

\* parts of the strings that do not have three parts
OddPool ==
    {<<"1">>,
     <<"1", "2">>,
     <<"2", "0", "1", "9">>}

\* the date strings tried: every day/month/year combination of the pools, and
\* strings of 0..MaxParts parts other than 3
DateInputs ==
    {Join(<<d, m, y>>, "/") : d \in DayPool, m \in MonthPool, y \in YearPool}
    \cup UNION {{Join(p, "/") : p \in [1..n -> OddPool]} :
                n \in (0..MaxParts) \ {3}}

RunIdle ==
    /\ tool = "none"
    /\ pc = "idle"
    /\ chat_content = <<>>
    /\ args_start = <<>>
    /\ args_end = <<>>
    /\ args_last_month = FALSE
    /\ start_date = None
    /\ end_date = None
    /\ lines = <<>>
    /\ li = 0
    /\ messages = <<>>
    /\ current_message = 0
    /\ filtered_messages = <<>>
    /\ fi = 0
    /\ photo_messages = <<>>
    /\ pi = 0
    /\ exit_status = -1

PipelineIdle == RunIdle /\ StagesIdle

pipeline_vars == <<tool, pc, chat_content, args_start, args_end,
                   args_last_month, start_date, end_date, lines, li, messages,
                   current_message, filtered_messages, fi, photo_messages, pi,
                   exit_status, stage_vars>>

InitDate ==
    /\ PipelineIdle
    /\ date_str \in DateInputs
    /\ date_result = Pending

\* one call parse_message_date(date_str)
CallParseMessageDate ==
    /\ date_result = Pending
    /\ date_result' = parse_message_date(date_str)
    /\ UNCHANGED <<date_str, pipeline_vars>>

NextDate == CallParseMessageDate

SpecDate == InitDate /\ [][NextDate]_vars

----------------------------------------------------------------------------
(* Claims about parse_message_date                                         *)

AllDigits(p) == p # <<>> /\ \A i \in 1..Len(p) : IsDigit(p[i])

DateParts == Split(date_str, "/")

\* the year a D/M/Y string names: the 50-year pivot for two digits
ExpectedYear(y) ==
    IF Len(y) = 2
    THEN (IF DigitsVal(y) <= 49 THEN 2000 + DigitsVal(y) ELSE 1900 + DigitsVal(y))
    ELSE DigitsVal(y)

\* date_str is day/month/year in digits, with a two- or four-digit year, and
\* names a day of the calendar
ValidDMY ==
    /\ Len(DateParts) = 3
    /\ \A i \in 1..3 : AllDigits(DateParts[i])
    /\ Len(DateParts[3]) \in {2, 4}
    /\ ValidDate(ExpectedYear(DateParts[3]), DigitsVal(DateParts[2]),
                 DigitsVal(DateParts[1]))

\* C5: for a valid D/M/Y string parse_message_date returns the date whose year
\* is 2000+YY for a two-digit year 00..49, 1900+YY for 50..99 and the year as
\* written for four digits, and whose month and day are the numbers written.
C5_YearPivot ==
    (date_result # Pending /\ ValidDMY) =>
        /\ date_result.outcome = "return"
        /\ date_result.value = [year |-> ExpectedYear(DateParts[3]),
                                month |-> DigitsVal(DateParts[2]),
                                day |-> DigitsVal(DateParts[1]),
                                tod |-> 0]

\* "01/01/49" has been parsed to a date of year 2049
C5_Witness ==
    /\ date_str = <<"0", "1", "/", "0", "1", "/", "4", "9">>
    /\ date_result = Return([year |-> 2049, month |-> 1, day |-> 1, tod |-> 0])

\* "01/01/50" has been parsed to a date of year 1950
C5_Witness50 ==
    /\ date_str = <<"0", "1", "/", "0", "1", "/", "5", "0">>
    /\ date_result = Return([year |-> 1950, month |-> 1, day |-> 1, tod |-> 0])

\* the string does not have three parts, or int() rejects a part, or the three
\* numbers are no day of the calendar
BadDateString ==
    \/ Len(DateParts) # 3
    \/ \E i \in 1..Len(DateParts) : ~IntOK(DateParts[i])
    \/ /\ Len(DateParts) = 3
       /\ \A i \in 1..3 : IntOK(DateParts[i])
       /\ ~ValidDate(IF Len(DateParts[3]) = 2
                     THEN (IF IntVal(DateParts[3]) <= 49 THEN 2000 ELSE 1900)
                          + IntVal(DateParts[3])
                     ELSE IntVal(DateParts[3]),
                     IntVal(DateParts[2]), IntVal(DateParts[1]))

\* C6: parse_message_date never raises; it returns None when the string does
\* not split on "/" into exactly 3 parts, has a part that is no number (int()
\* rejects it) or names no day of the calendar; what it returns otherwise is
\* None or a valid calendar date.
C6_UnparseableIsNone ==
    date_result # Pending =>
        /\ date_result.outcome = "return"
        /\ BadDateString => date_result.value = None
        /\ date_result.value # None =>
              /\ ~BadDateString
              /\ ValidDate(date_result.value.year, date_result.value.month,
                           date_result.value.day)

\* 31/02/2019 has been parsed to None
C6_Witness ==
    /\ date_str = <<"3", "1", "/", "0", "2", "/", "2", "0", "1", "9">>
    /\ date_result = Return(None)

----------------------------------------------------------------------------
(* Direct calls of the helper functions: call_args holds the arguments and *)
(* call_result the outcome                                                 *)

\* everything a direct call leaves alone
direct_frame == <<tool, pc, chat_content, args_start, args_end,
                  args_last_month, start_date, end_date, lines, li, messages,
                  current_message, filtered_messages, fi, photo_messages, pi,
                  exit_status, years_vars, extract_vars, qr_vars, doc_vars,
                  date_str, date_result>>

----------------------------------------------------------------------------
(* Direct calls of select_representative_photos                            *)

\* the longest bucket tried and the largest cap tried
MaxBucket == 5
MaxCap == 3

\* a bucket of photo messages and a cap max_per_year >= 1: the bucket is
\* photo_messages, and the call is given a list of the same messages
InitSelect ==
    /\ tool = "none"
    /\ pc = "idle"
    /\ chat_content = <<>>
    /\ args_start = <<>>
    /\ args_end = <<>>
    /\ args_last_month = FALSE
    /\ start_date = None
    /\ end_date = None
    /\ lines = <<>>
    /\ li = 0
    /\ \E n \in 1..MaxBucket :
          messages \in [1..n -> {PhotoMessage(l) : l \in PhotoLinePool}]
    /\ current_message = 0
    /\ filtered_messages = <<>>
    /\ fi = 0
    /\ photo_messages = AllRefs(messages)
    /\ pi = 0
    /\ exit_status = -1
    /\ date_str = <<>>
    /\ date_result = Pending
    /\ YearsIdle
    /\ ExtractIdle
    /\ \E cap \in 1..MaxCap : call_args = <<photo_messages, cap>>
    /\ call_result = Pending

\* one call select_representative_photos(call_args[1], call_args[2]): the
\* list given is sorted in place when it is longer than the cap
CallSelect ==
    /\ call_result.outcome = "pending"
    /\ \E selected \in
          select_representative_photos(call_args[1], call_args[2], messages) :
          call_result' = Return(selected)
    /\ call_args' = <<select_sorts_in_place(call_args[1], call_args[2],
                                            messages), call_args[2]>>
    /\ UNCHANGED direct_frame

NextSelect == CallSelect

SpecSelect == InitSelect /\ [][NextSelect]_vars

----------------------------------------------------------------------------
(* Claims about select_representative_photos                               *)

\* the place of photo x of the bucket in chronological order, counted from
\* 0: photos of one instant keep the order of the bucket, a photo without a
\* date counts as the earliest instant
ChronPlace(x) ==
    Cardinality({y \in 1..Len(messages) :
        \/ DtLess(DateSortKey(messages[y].datetime),
                  DateSortKey(messages[x].datetime))
        \/ /\ DateSortKey(messages[y].datetime) =
                 DateSortKey(messages[x].datetime)
           /\ y < x})

SelectReturned == call_result.outcome = "return"

\* C13: select_representative_photos with a cap N >= 1 returns a bucket of
\* at most N photos as it is; of a bucket of total > N photos it returns N
\* photos, the k-th of them (k = 0 .. N-1) being the photo at place
\* k * (total div N) of the bucket in chronological order
C13_StrideSelection ==
    SelectReturned =>
        LET total == Len(photo_messages)
            N == call_args[2]
            s == total \div N
            out == call_result.value
        IN  IF total <= N
            THEN out = photo_messages /\ call_args[1] = photo_messages
            ELSE /\ Len(out) = N
                 /\ \A k \in 1..N :
                       /\ out[k] \in 1..total
                       /\ ChronPlace(out[k]) = (k - 1) * s
                 /\ \A j, k \in 1..N : j # k => out[j] # out[k]

\* the lists a call with the arguments of this state can return
SelectionsNow ==
    select_representative_photos(call_args[1], call_args[2], messages)

\* what the stride pass alone selects of the bucket
StrideAlone ==
    LET sorted == SortByDate(call_args[1], messages)
    IN  StridePass(sorted, 0, Len(sorted) \div call_args[2], call_args[2],
                   <<>>)

\* C29: select_representative_photos is deterministic: of a bucket of
\* total > N >= 1 photos the stride pass alone selects N, so the random
\* fill adds nothing and a call can return one list only; a second call on
\* the list the first has left returns the selection of the first.
C29_SelectionDeterministic ==
    /\ Cardinality(SelectionsNow) = 1
    /\ Len(call_args[1]) > call_args[2] => Len(StrideAlone) = call_args[2]
    /\ SelectReturned => call_result.value \in SelectionsNow

\* a bucket of 5 photos not all of one instant has been cut to 3 with a
\* step of 1
C29_Witness ==
    /\ SelectReturned
    /\ Len(photo_messages) = 5
    /\ call_args[2] = 3
    /\ Len(call_result.value) = 3
    /\ messages[1].datetime # messages[2].datetime

\* a bucket of 5 photos, not in chronological order, has been cut to 2
C13_Witness ==
    /\ SelectReturned
    /\ Len(photo_messages) = 5
    /\ call_args[2] = 2
    /\ Len(call_result.value) = 2
    /\ call_result.value[1] > call_result.value[2]

----------------------------------------------------------------------------
(* Direct calls of extract_themes_from_text                                *)

\* nothing of a run has happened and no date is being parsed
DirectIdle ==
    /\ RunIdle
    /\ YearsIdle
    /\ ExtractIdle
    /\ date_str = <<>>
    /\ date_result = Pending

\* the longest free beginning of a text tried, in words
MaxHead == 3

\* words a text tried begins with: two stop words, a word with a capital, a
\* run of three, a run with a digit part, the attachment marker
HeadWords ==
    {<<"t", "h", "i", "s">>,
     <<"w", "i", "t", "h">>,
     <<"M", "a", "i", "n">>,
     <<"t", "h", "e">>,
     <<"W", "A", "-", "2", "0", "1", "9">>,
     <<"I", "M", "G", "-", "2", "0", "1", "9", "1", "1", "1", "5",
       "-", "W", "A", "0", "0", "0", "1", ".", "j", "p", "g", " ", "(",
       "f", "i", "l", "e", " ", "a", "t", "t", "a", "c", "h", "e", "d",
       ")">>}

\* the words a text tried goes on with: eleven words that are no stop words
TailWords ==
    <<<<"p", "i", "e", "r">>,
      <<"d", "e", "c", "k">>,
      <<"s", "p", "a", "n">>,
      <<"b", "e", "a", "m">>,
      <<"a", "r", "c", "h">>,
      <<"r", "o", "a", "d">>,
      <<"r", "a", "i", "l">>,
      <<"s", "l", "a", "b">>,
      <<"w", "a", "l", "l">>,
      <<"r", "a", "m", "p">>,
      <<"g", "a", "t", "e">>>>

\* the texts tried: up to MaxHead words of HeadWords, then the first words
\* of TailWords, separated by single spaces
ThemeTexts ==
    {JoinText(h \o FirstN(TailWords, n), <<" ">>) :
        h \in UNION {[1..k -> HeadWords] : k \in 0..MaxHead},
        n \in 0..Len(TailWords)}

InitThemes ==
    /\ DirectIdle
    /\ \E text \in ThemeTexts : call_args = <<text>>
    /\ call_result = Pending

\* one call extract_themes_from_text(call_args[1])
CallThemes ==
    /\ call_result.outcome = "pending"
    /\ call_result' = Return(extract_themes_from_text(call_args[1]))
    /\ UNCHANGED <<call_args, direct_frame>>

NextThemes == CallThemes

SpecThemes == InitThemes /\ [][NextThemes]_vars

----------------------------------------------------------------------------
(* Claims about extract_themes_from_text                                   *)

ThemesReturned == call_result.outcome = "return"

\* the surviving words of the text given: the runs of MinThemeLen or more
\* word characters of the lower-cased text (attachment markers taken out)
\* that are no stop words
SurvivingWords ==
    SelectSeq(WordsFrom(Strip(LowerText(RemoveMarkers(call_args[1], 1))), 1,
                        MinThemeLen),
              LAMBDA w : w \notin ThemeStopWords)

\* C15: extract_themes_from_text returns the first 10 surviving words of the
\* message (all of them when there are fewer), capitalized and in text
\* order, also when early runs of the text are stop words. (The code takes
\* the first 10 runs and drops the stop words among them afterwards.)
C15_FirstTenSurvivingWords ==
    ThemesReturned =>
        LET first == FirstN(SurvivingWords, MaxThemeWords)
        IN  call_result.value = [k \in 1..Len(first) |-> Capitalize(first[k])]

----------------------------------------------------------------------------
(* Direct calls of sanitize_text_for_filename                              *)

\* the longest text tried, in pieces
MaxPieces == 3

\* the pieces of the texts tried: a stop word, a single letter, words, a
\* word longer than the limit, words with a dash and with invalid
\* characters between them, invalid characters only, a word within control
\* characters, the attachment marker
TextPieces ==
    {<<"t", "h", "e">>,
     <<"x">>,
     <<"M", "a", "i", "n">>,
     <<"C", "o", "m", "p", "l", "e", "t", "e", "d">>,
     <<"R", "e", "i", "n", "f", "o", "r", "c", "e", "m", "e", "n", "t",
       "s", "2", "0", "1", "9">>,
     <<"S", "u", "p", "p", "o", "r", "t", "-", "I", "n", "s", "t", "a",
       "l", "l">>,
     <<"a", "/", "b", ":", "c">>,
     <<"<", "?", ">">>,
     <<"TAB", "d", "e", "c", "k", "CR", "\n">>,
     <<"I", "M", "G", "-", "2", "0", "1", "9", "1", "1", "1", "5", "-",
       "W", "A", "0", "0", "0", "1", ".", "j", "p", "g", " ", "(", "f",
       "i", "l", "e", " ", "a", "t", "t", "a", "c", "h", "e", "d", ")">>}

\* the text of the worked example
ExampleText ==
    <<"C", "o", "m", "p", "l", "e", "t", "e", "d", " ", "t", "h", "e", " ",
    "M", "a", "i", "n", " ", "B", "r", "i", "d", "g", "e", " ", "S", "u",
    "p", "p", "o", "r", "t", " ", "I", "n", "s", "t", "a", "l", "l", " ",
    "(", "f", "i", "l", "e", " ", "a", "t", "t", "a", "c", "h", "e", "d",
    ")">>

\* the texts tried: up to MaxPieces pieces separated by single spaces, and
\* the worked example
SanitizeTexts ==
    {JoinText(p, <<" ">>) :
        p \in UNION {[1..k -> TextPieces] : k \in 0..MaxPieces}}
    \cup {ExampleText}

InitSanitize ==
    /\ DirectIdle
    /\ \E text \in SanitizeTexts : call_args = <<text>>
    /\ call_result = Pending

\* one call sanitize_text_for_filename(call_args[1])
CallSanitize ==
    /\ call_result.outcome = "pending"
    /\ call_result' = Return(sanitize_text_for_filename(call_args[1]))
    /\ UNCHANGED <<call_args, direct_frame>>

NextSanitize == CallSanitize

SpecSanitize == InitSanitize /\ [][NextSanitize]_vars

----------------------------------------------------------------------------
(* Claims about sanitize_text_for_filename                                 *)

SanitizeReturned == call_result.outcome = "return"

\* the words of the worked example that are joined: lower-cased, without
\* the stop word "the"
ExampleJoined ==
    <<"c", "o", "m", "p", "l", "e", "t", "e", "d", " ", "m", "a", "i", "n",
    " ", "b", "r", "i", "d", "g", "e", " ", "s", "u", "p", "p", "o", "r",
    "t", " ", "i", "n", "s", "t", "a", "l", "l", " ", "f", "i", "l", "e",
    " ", "a", "t", "t", "a", "c", "h", "e", "d">>

\* p is a prefix of s that ends where a word of s ends
EndsAtWordEnd(p, s) ==
    /\ p # <<>>
    /\ Len(p) <= Len(s)
    /\ p = SubSeq(s, 1, Len(p))
    /\ p[Len(p)] # " "
    /\ Len(p) < Len(s) => s[Len(p) + 1] = " "

\* C16: for every text, sanitize_text_for_filename returns a non-empty
\* string of at most 15 characters with none of < > : " / \ | ? * in it and
\* no whitespace at either end; for the worked example the result ends at
\* the end of a whole word of the joined text.
C16_SafeShortName ==
    SanitizeReturned =>
        LET name == call_result.value
        IN  /\ name # <<>>
            /\ Len(name) <= 15
            /\ \A k \in 1..Len(name) : name[k] \notin InvalidFilenameChars
            /\ name[1] \notin PyWhitespace
            /\ name[Len(name)] \notin PyWhitespace
            /\ call_args[1] = ExampleText => EndsAtWordEnd(name, ExampleJoined)

\* the worked example has been cut to "completed main"
C16_Witness ==
    /\ SanitizeReturned
    /\ call_args[1] = ExampleText
    /\ call_result.value = <<"c", "o", "m", "p", "l", "e", "t", "e", "d",
                             " ", "m", "a", "i", "n">>
    /\ Len(ExampleJoined) > 15

----------------------------------------------------------------------------
(* Direct calls of extract_descriptive_words                               *)

\* the longest text tried, in pieces
MaxWords == 3

\* the pieces of the texts tried: stop words in lower and upper case, a
\* single letter, words of 4, 9, 10, 11 and 18 characters, punctuation,
\* the attachment marker
WordPieces ==
    {<<"t", "h", "e">>,
     <<"I", "t">>,
     <<"x">>,
     <<"p", "i", "e", "r">>,
     <<"C", "o", "m", "p", "l", "e", "t", "e", "d">>,
     <<"f", "o", "u", "n", "d", "a", "t", "i", "o", "n">>,
     <<"f", "o", "u", "n", "d", "a", "t", "i", "o", "n", "s">>,
     <<"r", "e", "i", "n", "f", "o", "r", "c", "e", "m", "e", "n", "t", "s", "2", "0", "1", "9">>,
     <<"?", "!">>,
     <<"I", "M", "G", "-", "2", "0", "1", "9", "1", "1", "1", "5", "-", "W", "A", "0", "0", "0", "1", ".", "j", "p", "g", " ", "(", "f", "i", "l", "e", " ", "a", "t", "t", "a", "c", "h", "e", "d", ")">>}

\* the texts tried: up to MaxWords pieces separated by single spaces
WordTexts ==
    {JoinText(p, <<" ">>) :
        p \in UNION {[1..k -> WordPieces] : k \in 0..MaxWords}}

InitWords ==
    /\ DirectIdle
    /\ \E text \in WordTexts : call_args = <<text>>
    /\ call_result = Pending

\* one call extract_descriptive_words(call_args[1]), max_chars left at its
\* default
CallWords ==
    /\ call_result.outcome = "pending"
    /\ call_result' =
           Return(extract_descriptive_words(call_args[1], DefaultMaxChars))
    /\ UNCHANGED <<call_args, direct_frame>>

NextWords == CallWords

SpecWords == InitWords /\ [][NextWords]_vars

----------------------------------------------------------------------------
(* Claims about extract_descriptive_words                                  *)

WordsReturned == call_result.outcome = "return"

\* the text without the attachment marker and the whitespace around it
TextAfterMarker == Strip(RemoveMarkers(call_args[1], 1))

\* the words of that text as written
RawWords == WordsFrom(TextAfterMarker, 1, 1)

\* its lower-cased words of two characters or more that are no stop words
SurvivingDescriptive ==
    SelectSeq([k \in 1..Len(RawWords) |-> LowerText(RawWords[k])],
              LAMBDA w : Len(w) >= 2 /\ w \notin DescriptiveStopWords)

\* the words that are joined: the surviving ones, else the first three as
\* written
WordsUsed ==
    IF SurvivingDescriptive # <<>> THEN SurvivingDescriptive
    ELSE FirstN(RawWords, 3)

JoinedWords == JoinText(WordsUsed, <<" ">>)

\* the 0-based index of the last space in the first 15 characters of s, -1
\* when there is none
LastSpaceIn(s) ==
    LET at == {i \in 0..14 : i < Len(s) /\ s[i + 1] = " "}
    IN  IF at = {} THEN -1 ELSE CHOOSE i \in at : \A j \in at : j <= i

LastSpaceInSpan == LastSpaceIn(JoinedWords)

\* C26: in extract_descriptive_words, joined words of more than 15
\* characters give the first 15 characters cut back to just before the last
\* space of that span when that space is at index 11 or later, and exactly
\* the first 15 characters otherwise; joined words of at most 15 characters
\* are returned unchanged.
C26_TruncationAtLastSpace ==
    WordsReturned =>
        LET joined == JoinedWords
            last_space == LastSpaceIn(joined)
        IN  joined # <<>> =>
                call_result.value =
                    IF Len(joined) <= 15 THEN joined
                    ELSE IF last_space >= 11
                         THEN SubSeq(joined, 1, last_space)
                         ELSE SubSeq(joined, 1, 15)

\* "pier completed deck" has been cut at its second space, index 14, and
\* not at its first
C26_Witness ==
    /\ WordsReturned
    /\ Len(JoinedWords) > 15
    /\ LastSpaceInSpan = 14
    /\ JoinedWords[5] = " "
    /\ call_result.value = <<"p", "i", "e", "r", " ", "c", "o", "m", "p", "l", "e", "t", "e", "d">>

\* joined words with their last space at index 10 have been cut in the
\* middle of a word
HardTruncationReached ==
    /\ WordsReturned
    /\ Len(JoinedWords) > 15
    /\ LastSpaceInSpan = 10
    /\ call_result.value = SubSeq(JoinedWords, 1, 15)
    /\ JoinedWords[16] # " "

\* p is the beginning of s
IsPrefix(p, s) == Len(p) <= Len(s) /\ p = SubSeq(s, 1, Len(p))

\* C27: the words extract_descriptive_words keeps are the lower-cased words
\* of two characters or more that are no stop words, in text order; when
\* none survives, the first 3 words of the text as written; the result is
\* NoText when the text is empty without the attachment marker or has no
\* word at all.
C27_WordsKept ==
    WordsReturned =>
        LET joined == JoinedWords
        IN  IF joined = <<>>
            THEN call_result.value = NoText
            ELSE /\ IsPrefix(call_result.value, joined)
                 /\ Len(joined) <= 15 => call_result.value = joined
                 /\ Len(call_result.value) >= 11 \/ call_result.value = joined

\* of "It the x" no word survives and the three words are returned as
\* written
C27_Witness ==
    /\ WordsReturned
    /\ call_args[1] = <<"I", "t", " ", "t", "h", "e", " ", "x">>
    /\ SurvivingDescriptive = <<>>
    /\ call_result.value = <<"I", "t", " ", "t", "h", "e", " ", "x">>

\* NoText for a text of the marker alone and for a text without a word
NoTextReached ==
    /\ WordsReturned
    /\ call_args[1] \in {<<"I", "M", "G", "-", "2", "0", "1", "9", "1", "1", "1", "5", "-", "W", "A", "0", "0", "0", "1", ".", "j", "p", "g", " ", "(", "f", "i", "l", "e", " ", "a", "t", "t", "a", "c", "h", "e", "d", ")">>, <<"?", "!">>}
    /\ call_result.value = NoText

----------------------------------------------------------------------------
(* Direct calls of generate_new_filename                                   *)

\* the dates tried: of the calendar with years of four, two and three
\* digits, and not of the calendar
DatePool ==
    {<<"1", "5", "/", "1", "1", "/", "2", "0", "1", "9">>,
     <<"1", "/", "3", "/", "1", "9">>,
     <<"5", "/", "6", "/", "7", "5">>,
     <<"1", "/", "1", "/", "2", "0", "1">>,
     <<"3", "1", "/", "0", "2", "/", "1", "9">>,
     <<"9", "9", "/", "9", "9", "/", "2", "0", "1", "9">>}

\* the senders tried: one word, three, four, a telephone number
SenderPool ==
    {<<"A", "l", "i", "c", "e">>,
     <<"b", "o", "b", " ", "v", "a", "n", " ", "d", "a", "m">>,
     <<"J", "a", "n", " ", "d", "e", " ", "V", "r", "i", "e", "s", " ",
       "J", "r">>,
     <<"+", "3", "1", " ", "6", " ", "1", "2">>}

\* the contents tried: the attachment marker alone, before and after text
ContentPool ==
    {<<"I", "M", "G", "-", "2", "0", "1", "9", "1", "1", "1", "5", "-",
       "W", "A", "0", "0", "0", "1", ".", "j", "p", "g", " ", "(", "f",
       "i", "l", "e", " ", "a", "t", "t", "a", "c", "h", "e", "d", ")">>,
     <<"I", "M", "G", "-", "2", "0", "1", "9", "1", "1", "1", "5", "-",
       "W", "A", "0", "0", "0", "2", ".", "j", "p", "g", " ", "(", "f",
       "i", "l", "e", " ", "a", "t", "t", "a", "c", "h", "e", "d", ")",
       " ", "P", "i", "e", "r", " ", "c", "a", "p", ":", " ", "p", "o",
       "u", "r", "e", "d">>,
     <<"D", "e", "c", "k", " ", "I", "M", "G", "-", "2", "0", "1", "9",
       "1", "1", "1", "5", "-", "W", "A", "0", "0", "0", "3", ".", "j",
       "p", "g", " ", "(", "f", "i", "l", "e", " ", "a", "t", "t", "a",
       "c", "h", "e", "d", ")">>}

\* the header line of a message of the extractor's grammar
PhotoLine(date, sender, content) ==
    date \o <<",", " ", "4", ":", "3", "8", "NNBSP", "p", "m", " ", "-", " ">>
    \o sender \o <<":", " ">> \o content

\* the message parse_chat_messages and find_photo_messages of the extractor
\* make of a photo line
ExtractorPhotoMessage(line) ==
    LET m == NewMessage(line, "extractor")
    IN  [m EXCEPT !.image_filename = FindFilename(m, "extractor")]

\* the photo messages tried
PhotoMessagePool ==
    {ExtractorPhotoMessage(PhotoLine(d, s, c)) :
        d \in DatePool, s \in SenderPool, c \in ContentPool}

InitFilename ==
    /\ DirectIdle
    /\ \E message \in PhotoMessagePool : call_args = <<message>>
    /\ call_result = Pending

\* one call generate_new_filename(call_args[1])
CallFilename ==
    /\ call_result.outcome = "pending"
    /\ call_result' = Return(generate_new_filename(call_args[1]))
    /\ UNCHANGED <<call_args, direct_frame>>

NextFilename == CallFilename

SpecFilename == InitFilename /\ [][NextFilename]_vars

----------------------------------------------------------------------------
(* Claims about generate_new_filename                                      *)

FilenameReturned == call_result.outcome = "return"

\* n % 100 in two digits
TwoDigits(n) == <<DigitChars[((n % 100) \div 10) + 1], DigitChars[(n % 10) + 1]>>

\* the date component the specification gives: YYMMDD of the parsed date,
\* 000000 when there is none
ParsedDateComponent(dt) ==
    IF dt = None THEN <<"0", "0", "0", "0", "0", "0">>
    ELSE TwoDigits(dt.year) \o TwoDigits(dt.month) \o TwoDigits(dt.day)

\* C17: generate_new_filename returns {YYMMDD}_{initials}_{sanitized
\* text}{extension of the original file name}, the initials being the first
\* 3 upper-cased word initials of the sender and the date component the
\* year, month and day of the parsed date in two digits each, 000000 when
\* the date of the message could not be parsed. (The code formats the three
\* parts of the date as written, without asking whether they name a day.)
C17_NameOfParsedDate ==
    FilenameReturned =>
        LET message == call_args[1]
        IN  call_result.value =
                ParsedDateComponent(message.datetime) \o <<"_">>
                \o get_person_initials(message.sender) \o <<"_">>
                \o sanitize_text_for_filename(message.full_content)
                \o <<".", "j", "p", "g">>

----------------------------------------------------------------------------
(* Extraction of the photos: extract_photos of the extractor and           *)
(* process_and_copy_images of the timeline generator.  A directory is a    *)
(* function from file names to contents; the content of an archive member  *)
(* is written as the member's name.                                        *)

\* the file `name` is written with `content`, replacing what was there
WriteFile(dir, name, content) ==
    [n \in DOMAIN dir \cup {name} |-> IF n = name THEN content ELSE dir[n]]

\* the file `name` is gone
RemoveFile(dir, name) == [n \in DOMAIN dir \ {name} |-> dir[n]]

\* os.path.exists
Exists(dir, name) == name \in DOMAIN dir

\* os.path.splitext(p)[0]
SplitRoot(p) == SubSeq(p, 1, Len(p) - Len(SplitExt(p)))

\* f"{name}_{counter}{ext}" of the name first tried
Suffixed(base, k) == SplitRoot(base) \o <<"_">> \o DecStr(k) \o SplitExt(base)

\* the entry appended to extracted_files; in the timeline generator the
\* entry of processed_photos and the message it is attached to
ExtractedEntry(original, new, ref) ==
    [original |-> original, new |-> new, message |-> ref]

\* what the actions of extract_photos and process_and_copy_images leave
\* alone
extract_frame == <<tool, chat_content, args_start, args_end,
                   args_last_month, start_date, end_date, lines, li,
                   messages, current_message, filtered_messages, fi,
                   photo_messages, pi, exit_status, date_str, date_result,
                   years_vars, call_vars, zip_members, qr_vars, doc_vars>>

\* the most photo messages of an extraction tried
MaxExtract == 3

\* the photo messages of the extractions tried: two of one day and sender
\* without text, whose generated names are the same, and one of another
\* day and sender
ExtractMessagePool ==
    {ExtractorPhotoMessage(PhotoLine(<<"1", "5", "/", "1", "1", "/", "2", "0", "1", "9">>, <<"A", "l", "i", "c", "e">>,
         <<"I", "M", "G", "-", "2", "0", "1", "9", "1", "1", "1", "5", "-",
         "W", "A", "0", "0", "0", "1", ".", "j", "p", "g", " ", "(", "f",
         "i", "l", "e", " ", "a", "t", "t", "a", "c", "h", "e", "d", ")">>)),
     ExtractorPhotoMessage(PhotoLine(<<"1", "5", "/", "1", "1", "/", "2", "0", "1", "9">>, <<"A", "l", "i", "c", "e">>,
         <<"I", "M", "G", "-", "2", "0", "1", "9", "1", "1", "1", "5", "-",
         "W", "A", "0", "0", "0", "4", ".", "j", "p", "g", " ", "(", "f",
         "i", "l", "e", " ", "a", "t", "t", "a", "c", "h", "e", "d", ")">>)),
     ExtractorPhotoMessage(PhotoLine(<<"1", "/", "3", "/", "1", "9">>, <<"b", "o", "b", " ", "v", "a", "n", " ", "d", "a", "m">>,
         <<"I", "M", "G", "-", "2", "0", "1", "9", "1", "1", "1", "5", "-",
         "W", "A", "0", "0", "0", "2", ".", "j", "p", "g", " ", "(", "f",
         "i", "l", "e", " ", "a", "t", "t", "a", "c", "h", "e", "d", ")",
         " ", "P", "i", "e", "r", " ", "c", "a", "p", ":", " ", "p", "o",
         "u", "r", "e", "d">>))}

\* main of the extractor: extract_photos(photo_messages, ...) is called and
\* makes the directory when there is none
ExtractStart ==
    /\ tool = "extractor"
    /\ pc = "found"
    /\ photo_messages # <<>>
    /\ pc' = "extract"
    /\ extracted_files' = <<>>
    /\ xi' = 1
    /\ UNCHANGED <<extract_frame, directory, new_path, name_counter>>

\* the message of this turn of the loop
ExtractMessage == messages[photo_messages[xi]]

\* the failure of one photo ends the loop
ExtractMissing_Stops ==
    /\ tool = "extractor"
    /\ pc = "extract"
    /\ xi <= Len(photo_messages)
    /\ \/ ExtractMessage.image_filename = NoFilename
       \/ ExtractMessage.image_filename \notin zip_members
    /\ xi' = Len(photo_messages) + 1
    /\ UNCHANGED <<extract_frame, pc, directory, extracted_files, new_path,
                   name_counter>>

\* the message has no image_filename, or zip_ref.extract raises (the
\* archive has no such member): the loop goes on with the next message
ExtractMissing ==
    /\ tool = "extractor"
    /\ pc = "extract"
    /\ xi <= Len(photo_messages)
    /\ \/ ExtractMessage.image_filename = NoFilename
       \/ ExtractMessage.image_filename \notin zip_members
    /\ xi' = xi + 1
    /\ UNCHANGED <<extract_frame, pc, directory, extracted_files, new_path,
                   name_counter>>

\* the member is extracted into the directory under its own name; the name
\* generated for it is the first one tried
ExtractMember ==
    /\ tool = "extractor"
    /\ pc = "extract"
    /\ xi <= Len(photo_messages)
    /\ ExtractMessage.image_filename # NoFilename
    /\ ExtractMessage.image_filename \in zip_members
    /\ directory' = WriteFile(directory, ExtractMessage.image_filename,
                              ExtractMessage.image_filename)
    /\ new_path' = generate_new_filename(ExtractMessage)
    /\ name_counter' = 1
    /\ pc' = "rename"
    /\ UNCHANGED <<extract_frame, extracted_files, xi>>

\* while os.path.exists(new_path): the next suffix is tried
RenameRetry ==
    /\ pc = "rename"
    /\ Exists(directory, new_path)
    /\ new_path' = Suffixed(generate_new_filename(ExtractMessage),
                            name_counter)
    /\ name_counter' = name_counter + 1
    /\ UNCHANGED <<extract_frame, pc, directory, extracted_files, xi>>

\* the move made without looking whether the name is taken
RenameMove_Overwrites ==
    /\ pc = "rename"
    /\ directory' = WriteFile(
           RemoveFile(directory, ExtractMessage.image_filename),
           new_path, directory[ExtractMessage.image_filename])
    /\ extracted_files' =
           Append(extracted_files,
                  ExtractedEntry(ExtractMessage.image_filename, new_path,
                                 photo_messages[xi]))
    /\ xi' = xi + 1
    /\ pc' = "extract"
    /\ UNCHANGED <<extract_frame, new_path, name_counter>>

\* the name is free: shutil.move and the entry of extracted_files
RenameMove ==
    /\ pc = "rename"
    /\ ~Exists(directory, new_path)
    /\ directory' = WriteFile(
           RemoveFile(directory, ExtractMessage.image_filename),
           new_path, directory[ExtractMessage.image_filename])
    /\ extracted_files' =
           Append(extracted_files,
                  ExtractedEntry(ExtractMessage.image_filename, new_path,
                                 photo_messages[xi]))
    /\ xi' = xi + 1
    /\ pc' = "extract"
    /\ UNCHANGED <<extract_frame, new_path, name_counter>>

\* extract_photos returns extracted_files
ExtractReturn ==
    /\ tool = "extractor"
    /\ pc = "extract"
    /\ xi > Len(photo_messages)
    /\ pc' = "extracted"
    /\ UNCHANGED <<extract_frame, directory, extracted_files, xi, new_path,
                   name_counter>>

NextExtract ==
    \/ ExtractStart
    \/ ExtractMissing
    \/ ExtractMember
    \/ RenameRetry
    \/ RenameMove
    \/ ExtractReturn

\* all_selected_photos of the timeline generator's main: the photos of the
\* year sections, one section after the other
RECURSIVE SelectedUpTo(_)
SelectedUpTo(k) ==
    IF k = 0 THEN <<>> ELSE SelectedUpTo(k - 1) \o timeline_data[k].photos

all_selected_photos == SelectedUpTo(Len(timeline_data))

\* '%Y%m%d' of the message's datetime (years of four digits), '00000000'
\* when it has none
ProcessedDate(dt) ==
    IF dt = None THEN <<"0", "0", "0", "0", "0", "0", "0", "0">>
    ELSE DecStr(dt.year)
         \o <<DigitChars[(dt.month \div 10) + 1], DigitChars[(dt.month % 10) + 1]>>
         \o <<DigitChars[(dt.day \div 10) + 1], DigitChars[(dt.day % 10) + 1]>>

\* the words of the sender that give an initial: split()[:2]
ProcessedInitialsWords == 2

\* new_filename of process_and_copy_images
ProcessedName(m) ==
    LET words == FirstN(SplitWhitespace(m.sender), ProcessedInitialsWords)
    IN  ProcessedDate(m.datetime) \o <<"_">>
        \o [k \in 1..Len(words) |-> Upper(words[k][1])] \o <<"_">>
        \o m.image_filename

\* main of the timeline generator: process_and_copy_images is called with
\* the photos selected for the year sections
ProcessStart ==
    /\ tool = "timeline"
    /\ pc = "organized"
    /\ pc' = "process"
    /\ extracted_files' = <<>>
    /\ xi' = 1
    /\ UNCHANGED <<extract_frame, directory, new_path, name_counter>>

\* the message of this turn of the loop
ProcessMessage == messages[all_selected_photos[xi]]

\* the message has no image_filename, or zip_ref.extract raises (the
\* archive has no such member): the loop goes on with the next message
ProcessMissing ==
    /\ tool = "timeline"
    /\ pc = "process"
    /\ xi <= Len(all_selected_photos)
    /\ \/ ProcessMessage.image_filename = NoFilename
       \/ ProcessMessage.image_filename \notin zip_members
    /\ xi' = xi + 1
    /\ UNCHANGED <<extract_frame, pc, directory, extracted_files, new_path,
                   name_counter>>

\* the member is extracted to the temporary directory and copied into the
\* images directory under its new name (shutil.copy2 replaces a file of
\* that name); the photo is appended to processed_photos
ProcessCopy ==
    /\ tool = "timeline"
    /\ pc = "process"
    /\ xi <= Len(all_selected_photos)
    /\ ProcessMessage.image_filename # NoFilename
    /\ ProcessMessage.image_filename \in zip_members
    /\ directory' = WriteFile(directory, ProcessedName(ProcessMessage),
                              ProcessMessage.image_filename)
    /\ extracted_files' =
           Append(extracted_files,
                  ExtractedEntry(ProcessMessage.image_filename,
                                 ProcessedName(ProcessMessage),
                                 all_selected_photos[xi]))
    /\ xi' = xi + 1
    /\ UNCHANGED <<extract_frame, pc, new_path, name_counter>>

\* process_and_copy_images returns processed_photos
ProcessReturn ==
    /\ tool = "timeline"
    /\ pc = "process"
    /\ xi > Len(all_selected_photos)
    /\ pc' = "processed"
    /\ UNCHANGED <<extract_frame, directory, extracted_files, xi, new_path,
                   name_counter>>

\* the rest of the timeline generator's main: the web page is written and
\* the summary printed. `timeline_data[0]['year']` of the summary raises
\* IndexError when there is no year section; `except Exception` makes it
\* `return 1`
TimelineSummary ==
    /\ tool = "timeline"
    /\ pc = "processed"
    /\ exit_status' = IF timeline_data = <<>> THEN 1 ELSE 0
    /\ pc' = "done"
    /\ UNCHANGED <<tool, chat_content, args_start, args_end, args_last_month,
                   start_date, end_date, lines, li, messages,
                   current_message, filtered_messages, fi, photo_messages,
                   pi, date_str, date_result, stage_vars>>

NextProcess ==
    \/ ProcessStart
    \/ ProcessMissing
    \/ ProcessCopy
    \/ ProcessReturn
    \/ TimelineSummary

\* a file that was in the directory before the run
OldContent == <<"o", "l", "d">>

\* the directories tried: none or an empty one, and a directory in which
\* earlier runs have left the name generated for the first two messages
\* and that name with the suffix _1
DirectoriesTried ==
    LET base == <<"1", "9", "1", "1", "1", "5", "_", "A", "_", "N", "o",
                "T", "e", "x", "t", ".", "j", "p", "g">>
    IN  {<<>>,
         [n \in {base, Suffixed(base, 1)} |-> OldContent]}

\* the archives tried: with all the files the messages name, and with all
\* but one of them
ArchivesTried(ms) ==
    LET named == {ms[k].image_filename : k \in 1..Len(ms)}
    IN  {named} \cup {named \ {x} : x \in named}

\* the extractor has parsed a chat of photo lines and found a photo message
\* in each line
InitExtract ==
    /\ tool = "extractor"
    /\ pc = "found"
    /\ chat_content = <<>>
    /\ args_start = <<>>
    /\ args_end = <<>>
    /\ args_last_month = FALSE
    /\ start_date = None
    /\ end_date = None
    /\ lines = <<>>
    /\ li = 0
    /\ \E n \in 1..MaxExtract : messages \in [1..n -> ExtractMessagePool]
    /\ current_message = Len(messages)
    /\ filtered_messages = AllRefs(messages)
    /\ fi = 0
    /\ photo_messages = AllRefs(messages)
    /\ pi = Len(messages) + 1
    /\ exit_status = -1
    /\ date_str = <<>>
    /\ date_result = Pending
    /\ YearsIdle
    /\ call_args = <<>>
    /\ call_result = Pending
    /\ directory \in DirectoriesTried
    /\ zip_members \in ArchivesTried(messages)
    /\ extracted_files = <<>>
    /\ xi = 0
    /\ new_path = <<>>
    /\ name_counter = 0
    /\ generated_codes = <<>>
    /\ qi = 0
    /\ DocIdle

SpecExtract == InitExtract /\ [][NextExtract]_vars

\* the timeline generator has found the photo messages; the images
\* directory is new
InitImages ==
    /\ YearsFound
    /\ args_max_photos = DefaultMaxPhotos
    /\ directory = <<>>
    /\ zip_members \in ArchivesTried(messages)
    /\ extracted_files = <<>>
    /\ xi = 0
    /\ new_path = <<>>
    /\ name_counter = 0
    /\ generated_codes = <<>>
    /\ qi = 0
    /\ DocIdle

InitPhotos == InitExtract \/ InitImages

NextPhotos == NextExtract \/ NextYears \/ NextProcess

\* both tools from the photo messages found to the photos written
SpecPhotos == InitPhotos /\ [][NextPhotos]_vars

----------------------------------------------------------------------------
(* Claims about extract_photos and process_and_copy_images                 *)

\* every entry of extracted_files has its file: the file is in the
\* directory under the entry's new name and holds the member extracted for
\* it; no two entries have the same new name
EntriesStored ==
    /\ \A k \in 1..Len(extracted_files) :
          /\ Exists(directory, extracted_files[k].new)
          /\ directory[extracted_files[k].new] = extracted_files[k].original
    /\ \A j, k \in 1..Len(extracted_files) :
          j # k => extracted_files[j].new # extracted_files[k].new

\* a step that appends an entry gives it the generated name when no file
\* has that name, and otherwise the name with the least suffix _k, k >= 1,
\* that no file has
LeastFreeName ==
    Len(extracted_files') = Len(extracted_files) + 1 =>
        LET e == extracted_files'[Len(extracted_files')]
            base == generate_new_filename(messages[e.message])
        IN  IF ~Exists(directory, base) THEN e.new = base
            ELSE \E k \in 1..Cardinality(DOMAIN directory) :
                    /\ e.new = Suffixed(base, k)
                    /\ ~Exists(directory, Suffixed(base, k))
                    /\ \A j \in 1..(k - 1) :
                          Exists(directory, Suffixed(base, j))

\* no step replaces or removes a file that was in the directory before the
\* run or that an entry of extracted_files names
FilesKept ==
    \A n \in DOMAIN directory :
        (\/ directory[n] = OldContent
         \/ \E k \in 1..Len(extracted_files) : extracted_files[k].new = n)
        => Exists(directory', n) /\ directory'[n] = directory[n]

ExtractReturned == pc = "extracted"

\* the retry loop is bounded: while a name is looked for, the suffix to try
\* next is at most the number of files in the directory (every name tried
\* before was the name of another file, and the extracted member is a file
\* too)
RetriesBounded ==
    pc = "rename" => name_counter <= Cardinality(DOMAIN directory)

\* C18: in extract_photos every extracted photo is stored under its
\* generated name if no file has that name, and otherwise under the name
\* with the least suffix _k (k >= 1, before the extension) that no file
\* has; no file written before is replaced, the new names in
\* extracted_files are pairwise distinct, and the retry loop ends: it makes
\* no more retries than the directory has files.
C18_FreeNameFound ==
    /\ [](EntriesStored /\ RetriesBounded)
    /\ [][LeastFreeName /\ FilesKept]_vars

\* the directory held the generated name and the same name with _1, and two
\* photos with that generated name were stored with _2 and _3
C18_Witness ==
    /\ ExtractReturned
    /\ Len(extracted_files) = 2
    /\ extracted_files[1].new = 
          <<"1", "9", "1", "1", "1", "5", "_", "A", "_", "N", "o", "T",
          "e", "x", "t", "_", "2", ".", "j", "p", "g">>
    /\ extracted_files[2].new = 
          <<"1", "9", "1", "1", "1", "5", "_", "A", "_", "N", "o", "T",
          "e", "x", "t", "_", "3", ".", "j", "p", "g">>
    /\ extracted_files[1].original # extracted_files[2].original

\* the photo messages handed to the function that has returned
PhotosGiven ==
    IF tool = "extractor" THEN photo_messages ELSE all_selected_photos

\* extract_photos or process_and_copy_images has returned
PhotosReturned == pc \in {"extracted", "processed"}

\* C19: in extract_photos and in process_and_copy_images a photo whose
\* processing raises (the archive has no member of its name) is left out of
\* the list returned, and every other photo message, before and after it,
\* is processed: the list returned holds the photos whose member exists, in
\* the order they were given.
C19_FailedPhotoOnlySkipped ==
    PhotosReturned =>
        [k \in 1..Len(extracted_files) |-> extracted_files[k].message]
        = SelectSeq(PhotosGiven,
                    LAMBDA r : messages[r].image_filename \in zip_members)

\* of three photo messages the second has no member in the archive, and the
\* first and the third have been extracted
C19_Witness ==
    /\ pc = "extracted"
    /\ Len(photo_messages) = 3
    /\ messages[2].image_filename \notin zip_members
    /\ Len(extracted_files) = 2
    /\ extracted_files[1].message = 1
    /\ extracted_files[2].message = 3

\* the same in the timeline generator: of three photos selected the second
\* has no member in the archive
C19_WitnessTimeline ==
    /\ pc = "processed"
    /\ Len(all_selected_photos) = 3
    /\ messages[all_selected_photos[2]].image_filename \notin zip_members
    /\ Len(extracted_files) = 2
    /\ extracted_files[1].message = all_selected_photos[1]
    /\ extracted_files[2].message = all_selected_photos[3]

\* the text that accompanies the attachment reference of a photo message
\* of the timeline generator: full_content without the reference, which is
\* <attached: NAME> when the name was found in that form and the file name
\* alone otherwise
AccompanyingText(m) ==
    LET s == m.full_content
        f == m.image_filename
        tagged == {i \in 1..Len(s) : AttachedAt(s, i) = f}
        named == {i \in 1..Len(s) : LitAt(s, i, f)}
        first(S) == CHOOSE i \in S : \A j \in S : i <= j
    IN  IF tagged # {}
        THEN SubSeq(s, 1, first(tagged) - 1)
             \o <<" ">> \o From(s, first(tagged) + Len(f) + 12)
        ELSE SubSeq(s, 1, first(named) - 1)
             \o <<" ">> \o From(s, first(named) + Len(f))

\* the words a text can give as themes: its runs of four word characters
\* or more, capitalized
ThemeCandidates(text) ==
    {Capitalize(w) : w \in Range(WordsFrom(LowerText(text), 1, MinThemeLen))}

\* the themes counted for a year
ThemesCounted(year) ==
    {years_data[year].themes[k][1] : k \in 1..Len(years_data[year].themes)}

\* C25: theme extraction strips the attachment marker before it extracts
\* words: the themes counted for a photo message in organize_by_year hold
\* no word of the attachment reference ('Attached', 'Photo', parts of the
\* file name), only words of the accompanying text. (The marker stripped is
\* the extractor's, IMG-...jpg (file attached); the references the
\* timeline generator recognizes stay in the text.)
C25_NoThemeFromReference ==
    Organized =>
        \A year \in DOMAIN years_data :
            ThemesCounted(year) \subseteq
                UNION {ThemeCandidates(AccompanyingText(messages[r])) :
                          r \in Range(years_data[year].photos)}

\* what holds of C25: every theme counted is a word of four letters or more
\* of the full text of a photo message of the year
ThemesFromFullText ==
    Organized =>
        \A year \in DOMAIN years_data :
            ThemesCounted(year) \subseteq
                UNION {ThemeCandidates(messages[r].full_content) :
                          r \in Range(years_data[year].photos)}

\* a year whose themes are words of the accompanying text and the word of
\* the reference
ThemesFromFullTextReached ==
    /\ Organized
    /\ \E year \in DOMAIN years_data :
          /\ <<"B", "r", "i", "d", "g", "e">> \in ThemesCounted(year)
          /\ <<"A", "t", "t", "a", "c", "h", "e", "d">> \in ThemesCounted(year)

\* the line is made of spaces, tabs and carriage returns only
WhitespaceOnly(raw) ==
    raw # <<>> /\ \A k \in 1..Len(raw) : raw[k] \in {" ", "TAB", "CR"}

\* the parse loop is at line li
AtLine == pc = "parse" /\ li <= Len(lines)

\* the step of the parse loop leaves the records and the open message as
\* they are: parsing goes on as if the line were not there
LineSkipped ==
    /\ li' = li + 1
    /\ messages' = messages
    /\ current_message' = current_message

\* C23: a line of nothing but whitespace (spaces, tabs, carriage return)
\* is skipped entirely by parse_chat_messages in both tools: it opens no
\* message, is appended to none and does not close the open message, so
\* the records are those of the export without that line. (The timeline
\* generator strips '\r\n ' only: what is left of a line with a tab is
\* appended to the open message.)
C23_WhitespaceLineSkipped ==
    [][AtLine /\ WhitespaceOnly(lines[li]) => LineSkipped]_vars

\* what holds of C23: the extractor skips every whitespace-only line, the
\* timeline generator every line of spaces and carriage returns
WhitespaceLineSkippedWithoutTab ==
    [][/\ AtLine
       /\ WhitespaceOnly(lines[li])
       /\ tool = "timeline" => \A k \in 1..Len(lines[li]) : lines[li][k] # "TAB"
       => LineSkipped]_vars

\* a whitespace-only line has been skipped while a message was open, in
\* the extractor and in the timeline generator
WhitespaceLineSkippedReached ==
    /\ pc = "parse"
    /\ li = 3
    /\ WhitespaceOnly(lines[2])
    /\ tool = "timeline" => lines[2] = LineSpace
    /\ Len(messages) = 1
    /\ current_message = 1
    /\ messages[1].full_content = messages[1].content

\* main has run to its end
MainReturned == pc = "done"

\* a photo message of the run has no parsed date
SomeUndated ==
    \E k \in 1..Len(photo_messages) :
        messages[photo_messages[k]].datetime = None

\* C22: a message without a parsed date is left out and never makes a run
\* fail: a run of the timeline generator that found photo messages ends
\* with exit status 0, also when every photo message has an unparseable
\* date. (With no dated photo there is no year section, and the summary at
\* the end of main raises on timeline_data[0]: exit status 1.)
C22_UndatedNeverFails ==
    MainReturned /\ tool = "timeline" => exit_status = 0

\* what holds of C22: the run ends with status 0 when a photo is dated,
\* whatever the other photo messages are
UndatedAmongDatedPasses ==
    MainReturned /\ tool = "timeline" /\ DatedPhotos # {} => exit_status = 0

\* a run with dated and undated photo messages has ended with status 0
UndatedAmongDatedReached ==
    /\ MainReturned
    /\ tool = "timeline"
    /\ SomeUndated
    /\ DatedPhotos # {}
    /\ exit_status = 0

----------------------------------------------------------------------------
(* The Word document of the extractor: create_word_document.  The document *)
(* is the list of what is added to it; a caption stands for its text.      *)

\* what is added to the document for photo number k of the file `name`
DocEntry(kind, k, name) == [kind |-> kind, photo |-> k, name |-> name]

\* what the actions of create_word_document leave alone
doc_frame == <<tool, chat_content, args_start, args_end, args_last_month,
               start_date, end_date, lines, li, messages, current_message,
               filtered_messages, fi, photo_messages, pi, exit_status,
               date_str, date_result, years_vars, call_args, extract_vars,
               qr_vars, corrupt_members>>

\* the title, the time of generation and the period are added; the archive
\* is opened and the loop over the photo messages begins
DocStart ==
    /\ tool = "extractor"
    /\ pc = "doc_call"
    /\ document' = <<DocEntry("title", 0, <<>>)>>
    /\ photo_count' = 0
    /\ di' = 1
    /\ pc' = "doc_loop"
    /\ UNCHANGED <<doc_frame, call_result>>

\* the message of this turn of the loop
DocMessage == messages[photo_messages[di]]

\* the message has no image_filename, or zip_ref.extract raises KeyError
\* (the archive has no such member): the loop goes on
DocMissing ==
    /\ pc = "doc_loop"
    /\ di <= Len(photo_messages)
    /\ \/ DocMessage.image_filename = NoFilename
       \/ DocMessage.image_filename \notin zip_members
    /\ di' = di + 1
    /\ UNCHANGED <<doc_frame, pc, document, photo_count, call_result>>

\* the member is extracted, photo_count is raised and the heading added;
\* add_picture raises: a paragraph with the error is added and the loop
\* goes on
DocLoadFails ==
    /\ pc = "doc_loop"
    /\ di <= Len(photo_messages)
    /\ DocMessage.image_filename # NoFilename
    /\ DocMessage.image_filename \in zip_members
    /\ DocMessage.image_filename \in corrupt_members
    /\ photo_count' = photo_count + 1
    /\ document' = document
           \o <<DocEntry("heading", photo_count + 1, DocMessage.image_filename),
                DocEntry("error", photo_count + 1, DocMessage.image_filename)>>
    /\ di' = di + 1
    /\ UNCHANGED <<doc_frame, pc, call_result>>

\* the member is extracted, photo_count is raised, and the heading, the
\* picture, the caption and an empty paragraph are added
DocEmbed ==
    /\ pc = "doc_loop"
    /\ di <= Len(photo_messages)
    /\ DocMessage.image_filename # NoFilename
    /\ DocMessage.image_filename \in zip_members
    /\ DocMessage.image_filename \notin corrupt_members
    /\ photo_count' = photo_count + 1
    /\ document' = document
           \o <<DocEntry("heading", photo_count + 1, DocMessage.image_filename),
                DocEntry("picture", photo_count + 1, DocMessage.image_filename),
                DocEntry("caption", photo_count + 1, DocMessage.image_filename),
                DocEntry("paragraph", 0, <<>>)>>
    /\ di' = di + 1
    /\ UNCHANGED <<doc_frame, pc, call_result>>

\* the document is saved and photo_count returned
DocReturn ==
    /\ pc = "doc_loop"
    /\ di > Len(photo_messages)
    /\ call_result' = Return(photo_count)
    /\ pc' = "doc_saved"
    /\ UNCHANGED <<doc_frame, document, photo_count, di>>

NextDocument ==
    \/ DocStart
    \/ DocMissing
    \/ DocLoadFails
    \/ DocEmbed
    \/ DocReturn

\* create_word_document is called with the photo messages the extractor
\* has found; some members of the archive may be no image
InitDocument ==
    /\ tool = "extractor"
    /\ pc = "doc_call"
    /\ chat_content = <<>>
    /\ args_start = <<>>
    /\ args_end = <<>>
    /\ args_last_month = FALSE
    /\ start_date = None
    /\ end_date = None
    /\ lines = <<>>
    /\ li = 0
    /\ \E n \in 1..MaxExtract : messages \in [1..n -> ExtractMessagePool]
    /\ current_message = Len(messages)
    /\ filtered_messages = AllRefs(messages)
    /\ fi = 0
    /\ photo_messages = AllRefs(messages)
    /\ pi = Len(messages) + 1
    /\ exit_status = -1
    /\ date_str = <<>>
    /\ date_result = Pending
    /\ YearsIdle
    /\ call_args = <<>>
    /\ call_result = Pending
    /\ directory = <<>>
    /\ zip_members \in ArchivesTried(messages)
    /\ extracted_files = <<>>
    /\ xi = 0
    /\ new_path = <<>>
    /\ name_counter = 0
    /\ generated_codes = <<>>
    /\ qi = 0
    /\ document = <<>>
    /\ photo_count = 0
    /\ di = 0
    /\ corrupt_members \in SUBSET zip_members

SpecDocument == InitDocument /\ [][NextDocument]_vars

----------------------------------------------------------------------------
(* Claims about create_word_document                                       *)

DocReturned == pc = "doc_saved"

\* the places of photo_messages whose photo is in the document with its
\* image and its caption
PhotosEmbedded ==
    {k \in 1..Len(photo_messages) :
        LET name == messages[photo_messages[k]].image_filename
        IN  \E j \in 1..Len(document) - 1 :
                /\ document[j] = DocEntry("picture", document[j].photo, name)
                /\ document[j + 1].kind = "caption"}

\* the numbers of the 'Photo k' headings, in document order
HeadingNumbers ==
    LET headings == SelectSeq(document, LAMBDA e : e.kind = "heading")
    IN  [j \in 1..Len(headings) |-> headings[j].photo]

\* every heading is followed by the picture it announces
HeadingsHavePictures ==
    \A j \in 1..Len(document) :
        document[j].kind = "heading" =>
            /\ j < Len(document)
            /\ document[j + 1].kind = "picture"

\* C28: in create_word_document a photo whose processing fails (the member
\* is missing from the archive, the image cannot be loaded) is left out of
\* the output: the count returned is the number of photos embedded with
\* image and caption, and the 'Photo k' headings number exactly those
\* photos, consecutively from 1. (photo_count is raised and the heading
\* added before the image is loaded.)
C28_FailedPhotoNotCounted ==
    DocReturned =>
        /\ call_result.value = Cardinality(PhotosEmbedded)
        /\ HeadingNumbers = [j \in 1..Cardinality(PhotosEmbedded) |-> j]
        /\ HeadingsHavePictures

\* what holds of C28: a photo whose member is missing is neither counted
\* nor given a heading
MissingPhotoNotCounted ==
    DocReturned /\ corrupt_members = {} => C28_FailedPhotoNotCounted

\* of three photos the second is missing from the archive; the others are
\* Photo 1 and Photo 2
MissingPhotoNotCountedReached ==
    /\ DocReturned
    /\ corrupt_members = {}
    /\ Len(photo_messages) = 3
    /\ messages[photo_messages[2]].image_filename \notin zip_members
    /\ call_result.value = 2
    /\ HeadingNumbers = <<1, 2>>

----------------------------------------------------------------------------
(* Direct calls of the timeline generator's find_photo_messages on one     *)
(* message                                                                 *)

\* the pieces of the message texts tried: what precedes the reference, the
\* opening of the reference, the name, the extension and the closing
CaseLeads == {<<>>, <<"s", "e", "e", " ">>}
CaseOpens == {<<>>, <<"<", "a", "t", "t", "a", "c", "h", "e", "d", ":", " ">>, <<"<", "A", "T", "T", "A", "C", "H", "E", "D", ":", " ">>, <<"<", "A", "t", "t", "a", "c", "h", "e", "d", ":", " ">>}
CaseNames ==
    {<<"a">>, <<"A">>,
     <<"I", "M", "G", "-", "2", "0", "1", "9", "1", "1", "1", "5", "-", "W", "A", "0", "0", "0", "3">>,
     <<"i", "m", "g", "-", "2", "0", "1", "9", "1", "1", "1", "5", "-", "w", "a", "0", "0", "0", "3">>,
     <<"0", "0", "0", "0", "0", "0", "0", "3", "-", "P", "H", "O", "T", "O", "-", "1">>,
     <<"0", "0", "0", "0", "0", "0", "0", "3", "-", "p", "h", "o", "t", "o", "-", "1">>}
CaseExtensions ==
    {<<".", "j", "p", "g">>, <<".", "J", "P", "G">>, <<".", "p", "n", "g">>, <<".", "P", "N", "G">>,
     <<".", "j", "p", "e", "g">>, <<".", "J", "p", "e", "g">>}
CaseCloses == {<<>>, <<">">>}

\* the message texts tried
CaseTexts ==
    {l \o o \o n \o e \o c :
        l \in CaseLeads, o \in CaseOpens, n \in CaseNames,
        e \in CaseExtensions, c \in CaseCloses}

\* the message parse_chat_messages makes of a line with this text
TextMessage(text) ==
    NewMessage(<<"[", "1", "/", "1", "/", "2", "0", "2", "0", ",", " ", "1", ":", "0", "0", ":", "0", "0", "]", " ", "B", "o", "b", ":", " ">> \o text, "timeline")

InitFind ==
    /\ DirectIdle
    /\ \E text \in CaseTexts : call_args = <<<<TextMessage(text)>>>>
    /\ call_result = Pending

\* one call find_photo_messages(call_args[1]) on a list of one message
CallFind ==
    /\ call_result.outcome = "pending"
    /\ LET message == call_args[1][1]
       IN  call_result' =
               Return(IF IsPhotoMessage(message, "timeline")
                      THEN <<[message EXCEPT !.image_filename =
                                  FindFilename(message, "timeline")]>>
                      ELSE <<>>)
    /\ UNCHANGED <<call_args, direct_frame>>

NextFind == CallFind

SpecFind == InitFind /\ [][NextFind]_vars

----------------------------------------------------------------------------
(* Claims about the letter case of attachment references                   *)

FindCallReturned == call_result.outcome = "return"

\* the two texts differ in letter case only
SameUpToCase(a, b) == LowerText(a) = LowerText(b)

\* the texts that differ from the text of the message in letter case only
\* and are recognized as the text of a photo message
RecognizedForms ==
    {t \in CaseTexts :
        /\ SameUpToCase(t, call_args[1][1].full_content)
        /\ IsPhotoMessage(TextMessage(t), "timeline")}

\* C24: attachment detection in the timeline generator is case-insensitive:
\* a message whose attachment reference differs only in letter case from a
\* recognized one (<ATTACHED: A.JPG>, a name ending .PNG>) is recognized as
\* a photo message, with the same file name up to case. (The test that
\* guards the search, '<attached:' in content and so on, is case-sensitive.)
C24_DetectionIgnoresCase ==
    FindCallReturned =>
        \A t \in RecognizedForms :
            /\ Len(call_result.value) = 1
            /\ SameUpToCase(call_result.value[1].image_filename,
                            FindFilename(TextMessage(t), "timeline"))

\* what holds of C24: once the guard has let the message through, the file
\* name found is the same up to case
NameIgnoresCase ==
    FindCallReturned /\ Len(call_result.value) = 1 =>
        \A t \in RecognizedForms :
            SameUpToCase(call_result.value[1].image_filename,
                         FindFilename(TextMessage(t), "timeline"))

\* <attached: A.JPG> has been recognized, with the name A.JPG
NameIgnoresCaseReached ==
    /\ FindCallReturned
    /\ call_args[1][1].full_content = <<"<", "a", "t", "t", "a", "c", "h", "e", "d", ":", " ", "A", ".", "J", "P", "G", ">">>
    /\ Len(call_result.value) = 1
    /\ call_result.value[1].image_filename = <<"A", ".", "J", "P", "G">>

----------------------------------------------------------------------------
(* Direct calls of the extractor's find_photo_messages on one message of   *)
(* several lines                                                           *)

\* the most continuation lines of a message tried
MaxContinuation == 2

\* the lines the messages tried are made of: name and trigger, the name
\* alone, the trigger alone, neither, another name, a name in lower case
\* with the trigger, another file with the trigger
AttachmentLines ==
    {<<"I", "M", "G", "-", "2", "0", "1", "9", "1", "1", "1", "5", "-", "W", "A", "0", "0", "0", "1", ".", "j", "p", "g", " ", "(", "f", "i", "l", "e", " ", "a", "t", "t", "a", "c", "h", "e", "d", ")">>,
     <<"I", "M", "G", "-", "2", "0", "1", "9", "1", "1", "1", "5", "-", "W", "A", "0", "0", "0", "1", ".", "j", "p", "g">>,
     <<"(", "f", "i", "l", "e", " ", "a", "t", "t", "a", "c", "h", "e", "d", ")">>,
     <<"s", "e", "e", " ", "p", "h", "o", "t", "o">>,
     <<"I", "M", "G", "-", "2", "0", "1", "9", "1", "1", "1", "5", "-", "W", "A", "0", "0", "0", "2", ".", "j", "p", "g">>,
     <<"i", "m", "g", "-", "2", "0", "1", "9", "1", "1", "1", "5", "-", "w", "a", "0", "0", "0", "3", ".", "j", "p", "g", " ", "(", "f", "i", "l", "e", " ", "a", "t", "t", "a", "c", "h", "e", "d", ")">>,
     <<"p", "h", "o", "t", "o", ".", "p", "n", "g", " ", "(", "f", "i", "l", "e", " ", "a", "t", "t", "a", "c", "h", "e", "d", ")">>}

\* the message parse_chat_messages of the extractor makes of a header line
\* with the text `first` and the continuation lines `more`
LinesMessage(first, more) ==
    LET m == NewMessage(<<"1", "5", "/", "1", "1", "/", "2", "0", "1", "9", ",", " ", "4", ":", "3", "8", "NNBSP", "p", "m", " ", "-", " ", "A", "l", "i", "c", "e", ":", " ">> \o first, "extractor")
    IN  [m EXCEPT !.full_content =
            JoinText(<<m.content>> \o more, <<"\n">>)]

InitAttachment ==
    /\ DirectIdle
    /\ \E first \in AttachmentLines, n \in 0..MaxContinuation :
          \E more \in [1..n -> AttachmentLines] :
              call_args = <<<<LinesMessage(first, more)>>>>
    /\ call_result = Pending

\* one call find_photo_messages(call_args[1]) of the extractor on a list of
\* one message
CallFindAttachment ==
    /\ call_result.outcome = "pending"
    /\ LET message == call_args[1][1]
       IN  call_result' =
               Return(IF IsPhotoMessage(message, "extractor")
                      THEN <<[message EXCEPT !.image_filename =
                                  FindFilename(message, "extractor")]>>
                      ELSE <<>>)
    /\ UNCHANGED <<call_args, direct_frame>>

NextAttachment == CallFindAttachment

SpecAttachment == InitAttachment /\ [][NextAttachment]_vars

----------------------------------------------------------------------------
(* Claims about the lines of a photo message of the extractor              *)

\* the lines of the message given
MessageLines == Split(call_args[1][1].full_content, "\n")

\* the trigger is in some line of the message
TriggerSomewhere ==
    \E k \in 1..Len(MessageLines) :
        Contains(MessageLines[k], TriggerFileAttached)

\* C30: the extractor's find_photo_messages looks for "(file attached)" in
\* content and full_content but for the file name in the first line only:
\* a message of several lines is a photo message if and only if the trigger
\* is somewhere in the message and its first line holds an
\* IMG-<8 digits>-WA<4 digits>.jpg name; a name that is only on a
\* continuation line is never recorded.
C30_NameFromFirstLineOnly ==
    FindCallReturned =>
        /\ Len(call_result.value) = 1
              <=> TriggerSomewhere /\ HasImgWaName(MessageLines[1])
        /\ Len(call_result.value) <= 1
        /\ Len(call_result.value) = 1 =>
              Contains(MessageLines[1], call_result.value[1].image_filename)

\* the name is on the first line and the trigger on the second only: the
\* message is recorded
C30_Witness ==
    /\ FindCallReturned
    /\ MessageLines = <<<<"I", "M", "G", "-", "2", "0", "1", "9", "1", "1", "1", "5", "-", "W", "A", "0", "0", "0", "1", ".", "j", "p", "g">>, <<"(", "f", "i", "l", "e", " ", "a", "t", "t", "a", "c", "h", "e", "d", ")">>,
                        <<"I", "M", "G", "-", "2", "0", "1", "9", "1", "1", "1", "5", "-", "W", "A", "0", "0", "0", "2", ".", "j", "p", "g">>>>
    /\ Len(call_result.value) = 1
    /\ call_result.value[1].image_filename = <<"I", "M", "G", "-", "2", "0", "1", "9", "1", "1", "1", "5", "-", "W", "A", "0", "0", "0", "1", ".", "j", "p", "g">>

\* trigger on the first line, name on the second only: nothing is recorded
NameOnContinuationReached ==
    /\ FindCallReturned
    /\ MessageLines = <<<<"(", "f", "i", "l", "e", " ", "a", "t", "t", "a", "c", "h", "e", "d", ")">>, <<"I", "M", "G", "-", "2", "0", "1", "9", "1", "1", "1", "5", "-", "W", "A", "0", "0", "0", "1", ".", "j", "p", "g">>>>
    /\ call_result.value = <<>>

----------------------------------------------------------------------------
(* The QR generator (qr_generator.py): generate_qr_codes.  call_args holds *)
(* the CSV file as csv.DictReader reads it: the field names of the header  *)
(* and the rows, each the list of its values.                              *)

ColFilename == <<"f", "i", "l", "e", "n", "a", "m", "e">>
ColUrl == <<"u", "r", "l">>
ColShortUrl == <<"s", "h", "o", "r", "t", "_", "u", "r", "l">>

\* reader.fieldnames and the rows that follow the header
fieldnames == call_args[1]
csv_rows == call_args[2]

\* a field the row has no value for (DictReader's restval)
NoField == <<"None">>

\* row[name] of the dict DictReader makes of a row
Field(row, name) ==
    LET at == {k \in 1..Len(fieldnames) : fieldnames[k] = name}
        k == CHOOSE i \in at : \A j \in at : i >= j
    IN  IF k <= Len(row) THEN row[k] ELSE NoField

\* 'short_url' in reader.fieldnames
has_short_url == \E k \in 1..Len(fieldnames) : fieldnames[k] = ColShortUrl

\* the CSV has the required columns
HasColumns ==
    /\ \E k \in 1..Len(fieldnames) : fieldnames[k] = ColFilename
    /\ \E k \in 1..Len(fieldnames) : fieldnames[k] = ColUrl

\* .strip() of a field raises AttributeError: the field is None
StripRaises(row) ==
    \/ Field(row, ColFilename) = NoField
    \/ Field(row, ColUrl) = NoField
    \/ has_short_url /\ Field(row, ColShortUrl) = NoField

\* the three values read from a row
RowFilename(row) == Strip(Field(row, ColFilename))
RowUrl(row) == Strip(Field(row, ColUrl))
RowShortUrl(row) ==
    IF has_short_url THEN Strip(Field(row, ColShortUrl)) ELSE <<>>

\* `if not filename or not url`
RowEmpty(row) == RowFilename(row) = <<>> \/ RowUrl(row) = <<>>

\* open(output_path, 'wb') raises: the name leads into a directory that is
\* not there
WriteRaises(row) == \E k \in 1..Len(RowFilename(row)) : RowFilename(row)[k] = "/"

\* the SVG file written for a row and what it holds
SvgName(row) == RowFilename(row) \o <<".", "s", "v", "g">>

\* what the actions of generate_qr_codes leave alone
qr_frame == <<tool, chat_content, args_start, args_end, args_last_month,
              start_date, end_date, lines, li, messages, current_message,
              filtered_messages, fi, photo_messages, pi, exit_status,
              date_str, date_result, years_vars, call_args, zip_members,
              extracted_files, xi, new_path, name_counter, doc_vars>>

\* the header lacks 'filename' or 'url': return False
QrMissingColumns ==
    /\ tool = "qr"
    /\ pc = "qr_open"
    /\ ~HasColumns
    /\ call_result' = Return(FALSE)
    /\ pc' = "qr_done"
    /\ UNCHANGED <<qr_frame, directory, generated_codes, qi>>

\* the header has both columns: the loop over the rows begins
QrStart ==
    /\ tool = "qr"
    /\ pc = "qr_open"
    /\ HasColumns
    /\ generated_codes' = <<>>
    /\ qi' = 1
    /\ pc' = "qr_rows"
    /\ UNCHANGED <<qr_frame, directory, call_result>>

\* the row the reader yields next
QrRow == csv_rows[qi]

\* a row without any value is not yielded by DictReader
QrBlankRow ==
    /\ pc = "qr_rows"
    /\ qi <= Len(csv_rows)
    /\ QrRow = <<>>
    /\ qi' = qi + 1
    /\ UNCHANGED <<qr_frame, pc, directory, generated_codes, call_result>>

\* filename or url is empty: the row is skipped
QrSkipEmpty ==
    /\ pc = "qr_rows"
    /\ qi <= Len(csv_rows)
    /\ QrRow # <<>>
    /\ ~StripRaises(QrRow)
    /\ RowEmpty(QrRow)
    /\ qi' = qi + 1
    /\ UNCHANGED <<qr_frame, pc, directory, generated_codes, call_result>>

\* the row raises, in .strip() of a missing field or when the SVG file is
\* opened: the except clauses around the whole loop return []
QrRowRaises ==
    /\ pc = "qr_rows"
    /\ qi <= Len(csv_rows)
    /\ QrRow # <<>>
    /\ StripRaises(QrRow) \/ (~RowEmpty(QrRow) /\ WriteRaises(QrRow))
    /\ call_result' = Return(<<>>)
    /\ pc' = "qr_done"
    /\ UNCHANGED <<qr_frame, directory, generated_codes, qi>>

\* the QR code of the row is written and the row is appended
QrGenerate ==
    /\ pc = "qr_rows"
    /\ qi <= Len(csv_rows)
    /\ QrRow # <<>>
    /\ ~StripRaises(QrRow)
    /\ ~RowEmpty(QrRow)
    /\ ~WriteRaises(QrRow)
    /\ directory' = WriteFile(directory, SvgName(QrRow), RowUrl(QrRow))
    /\ generated_codes' =
           Append(generated_codes,
                  <<RowFilename(QrRow), RowUrl(QrRow), RowShortUrl(QrRow)>>)
    /\ qi' = qi + 1
    /\ UNCHANGED <<qr_frame, pc, call_result>>

\* the rows are used up: return generated_codes
QrReturn ==
    /\ pc = "qr_rows"
    /\ qi > Len(csv_rows)
    /\ call_result' = Return(generated_codes)
    /\ pc' = "qr_done"
    /\ UNCHANGED <<qr_frame, directory, generated_codes, qi>>

\* `if generated_codes:` in main: the value returned is a list with an entry
\* (False is returned when, and only when, the header lacks a column)
QrTruthy == HasColumns /\ call_result.value # <<>>

\* main after generate_qr_codes: `if generated_codes:` goes on to the index
\* PDF and main ends, anything else (False, []) is sys.exit(1)
QrExit ==
    /\ tool = "qr"
    /\ pc = "qr_done"
    /\ exit_status' = IF QrTruthy THEN 0 ELSE 1
    /\ pc' = "qr_exit"
    /\ UNCHANGED <<tool, chat_content, args_start, args_end, args_last_month,
                   start_date, end_date, lines, li, messages,
                   current_message, filtered_messages, fi, photo_messages,
                   pi, date_str, date_result, stage_vars>>

NextQr ==
    \/ QrMissingColumns
    \/ QrStart
    \/ QrBlankRow
    \/ QrSkipEmpty
    \/ QrRowRaises
    \/ QrGenerate
    \/ QrReturn
    \/ QrExit

\* the most rows of a CSV file tried
MaxRows == 3

\* the headers tried: the two required columns, with short_url, and without
\* the filename column
HeadersTried ==
    {<<ColFilename, ColUrl>>,
     <<ColFilename, ColUrl, ColShortUrl>>,
     <<<<"n", "a", "m", "e">>, ColUrl>>}

\* the rows tried: two and three values, the url missing, an empty
\* filename, a filename that leads into a directory, a line without values
RowsTried ==
    {<<<<"a">>, <<"u">>>>,
     <<<<" ", "b", " ">>, <<"v">>, <<"s">>>>,
     <<<<"c">>>>,
     <<<<" ">>, <<"u">>>>,
     <<<<"x", "/", "y">>, <<"u">>>>,
     <<>>}

InitQr ==
    /\ tool = "qr"
    /\ pc = "qr_open"
    /\ chat_content = <<>>
    /\ args_start = <<>>
    /\ args_end = <<>>
    /\ args_last_month = FALSE
    /\ start_date = None
    /\ end_date = None
    /\ lines = <<>>
    /\ li = 0
    /\ messages = <<>>
    /\ current_message = 0
    /\ filtered_messages = <<>>
    /\ fi = 0
    /\ photo_messages = <<>>
    /\ pi = 0
    /\ exit_status = -1
    /\ date_str = <<>>
    /\ date_result = Pending
    /\ YearsIdle
    /\ ExtractIdle
    /\ \E header \in HeadersTried, n \in 0..MaxRows :
          \E rows \in [1..n -> RowsTried] : call_args = <<header, rows>>
    /\ call_result = Pending

SpecQr == InitQr /\ [][NextQr]_vars

----------------------------------------------------------------------------
(* Claims about generate_qr_codes                                          *)

QrReturned == pc = "qr_done"

\* the row is processed without an exception and is not an empty row
RowSucceeds(row) ==
    /\ row # <<>>
    /\ ~StripRaises(row)
    /\ ~RowEmpty(row)
    /\ ~WriteRaises(row)

\* C20: when processing one CSV row raises (a row with a missing field, an
\* SVG file that cannot be written), generate_qr_codes skips that row
\* alone, goes on with the rows that follow and returns the entries of all
\* the rows that succeeded. (The try statement encloses the whole loop: a
\* row that raises ends the run with [].)
C20_FailedRowOnlySkipped ==
    QrReturned /\ HasColumns =>
        LET good == SelectSeq(csv_rows, RowSucceeds)
        IN  call_result.value =
                [k \in 1..Len(good) |->
                    <<RowFilename(good[k]), RowUrl(good[k]),
                      RowShortUrl(good[k])>>]

\* the row has a filename and a url that are not empty after trimming
RowComplete(row) ==
    /\ row # <<>>
    /\ Field(row, ColFilename) # NoField
    /\ Field(row, ColUrl) # NoField
    /\ Strip(Field(row, ColFilename)) # <<>>
    /\ Strip(Field(row, ColUrl)) # <<>>

\* the short_url of the entry of a row: '' when there is no such column or
\* the row has no value for it
EntryShortUrl(row) ==
    IF has_short_url /\ Field(row, ColShortUrl) # NoField
    THEN Strip(Field(row, ColShortUrl))
    ELSE <<>>

\* main has ended after generate_qr_codes
QrExited == pc = "qr_exit"

\* C21: with 'filename' and 'url' in the header, generate_qr_codes returns
\* one (filename, url, short_url) entry, in row order, for exactly the rows
\* whose filename and url are not empty after trimming, short_url being ''
\* without the column; the other rows are skipped and the run goes on.
\* Without 'filename' or 'url' in the header no QR code is written and the
\* run fails. (A row that raises ends the run with [], whatever the rows
\* before and after it hold.)
C21_EntryPerCompleteRow ==
    QrExited =>
        IF HasColumns
        THEN LET complete == SelectSeq(csv_rows, RowComplete)
             IN  call_result.value =
                     [k \in 1..Len(complete) |->
                         <<Strip(Field(complete[k], ColFilename)),
                           Strip(Field(complete[k], ColUrl)),
                           EntryShortUrl(complete[k])>>]
        ELSE /\ directory = <<>>
             /\ exit_status = 1

\* no row of the CSV raises
NoRowRaises ==
    HasColumns => \A k \in 1..Len(csv_rows) :
        csv_rows[k] # <<>> =>
            /\ ~StripRaises(csv_rows[k])
            /\ RowEmpty(csv_rows[k]) \/ ~WriteRaises(csv_rows[k])

\* what holds of C21: the same when no row raises
EntryPerCompleteRowUnlessRaised == NoRowRaises => C21_EntryPerCompleteRow

\* a complete row before and after an empty one, both returned, and a header
\* without 'filename'
EntryPerCompleteRowReached ==
    /\ QrExited
    /\ HasColumns
    /\ Len(csv_rows) = 3
    /\ RowComplete(csv_rows[1])
    /\ csv_rows[2] # <<>> /\ ~StripRaises(csv_rows[2]) /\ RowEmpty(csv_rows[2])
    /\ RowComplete(csv_rows[3])
    /\ Len(call_result.value) = 2
    /\ exit_status = 0

====
